---- MODULE Spec2Model ----
(***************************************************************************)
(* A model of brew-update-helper: the outdated-line parser (brew.rs), the  *)
(* checklist readers and renderer (config.rs), the change computation      *)
(* (stats.rs), the selection and its terminal (ui.rs), the log (utils.rs), *)
(* and the dump and upgrade commands (commands.rs) acting on the settings  *)
(* file, its directory and the log.                                        *)
(*                                                                         *)
(* A Rust String is a sequence of characters, each character a one-        *)
(* character string; a file content is one such sequence with its "\n".    *)
(* Option<T> is <<>> (None) or <<v>> (Some(v)); a HashMap<String, bool> is *)
(* a function whose domain is the set of its keys.                         *)
(***************************************************************************)
EXTENDS Integers, Sequences, FiniteSets, TLC

VARIABLES fsys, cmd, inp, out

vars == <<fsys, cmd, inp, out>>

-----------------------------------------------------------------------------
(* Bounds of the model. *)

\* most installed packages, formulae and casks together
MaxInstalled == 2

\* longest argument list given to the renderer
MaxRender == 2

\* most lines of a hand-written settings file
MaxDocLines == 2

\* longest list of outdated records the executor returns to upgrade_command
MaxOutdated == 2

\* longest free-form line given to parse_outdated_line
MaxLineLen == 6

\* most lines of each `brew outdated` listing
MaxOutLines == 2

\* most lines of a document given to the readers of the settings file
MaxReadLines == 3

\* the longest current or previous package list of a change computation
MaxChangeLen == 2

\* the longest list of records handed to the selection on its own
MaxPick == 3

-----------------------------------------------------------------------------
(* Option, and the str methods the program uses. *)

None == <<>>

Some(v) == <<v>>

IsSome(o) == o # <<>>

Unwrap(o) == o[1]

MinOf(S) == CHOOSE m \in S : \A n \in S : m <= n

\* char::is_whitespace, on the characters of the model
IsWhitespace(c) == c \in {" ", "\t", "\n", "\r"}

\* s[from..to], offsets counted from 0 as in Rust
Slice(s, from, to) == SubSeq(s, from + 1, to)

\* s[from..]
SliceFrom(s, from) == SubSeq(s, from + 1, Len(s))

RECURSIVE TrimStart(_)
TrimStart(s) ==
  IF s = <<>> THEN s
  ELSE IF IsWhitespace(Head(s)) THEN TrimStart(Tail(s)) ELSE s

RECURSIVE TrimEnd(_)
TrimEnd(s) ==
  IF s = <<>> THEN s
  ELSE IF IsWhitespace(s[Len(s)]) THEN TrimEnd(SubSeq(s, 1, Len(s) - 1)) ELSE s

\* str::trim
Trim(s) == TrimEnd(TrimStart(s))

\* str::starts_with
StartsWith(s, p) == Len(s) >= Len(p) /\ SubSeq(s, 1, Len(p)) = p

\* str::strip_prefix
StripPrefix(s, p) == IF StartsWith(s, p) THEN Some(SliceFrom(s, Len(p))) ELSE None

\* str::find: the offset of the first occurrence of p in s
Find(s, p) ==
  LET hits == {i \in 0..(Len(s) - Len(p)) :
                 (p = <<>> \/ s[i + 1] = p[1]) /\ Slice(s, i, i + Len(p)) = p}
  IN  IF hits = {} THEN None ELSE Some(MinOf(hits))

\* a line of str::lines loses one trailing "\r"
StripCR(s) ==
  IF s # <<>> /\ s[Len(s)] = "\r" THEN SubSeq(s, 1, Len(s) - 1) ELSE s

\* the lines of s from offset start on; breaks holds the offsets just after
\* each "\n" of s
RECURSIVE LinesFrom(_, _, _)
LinesFrom(s, breaks, start) ==
  LET ahead == {b \in breaks : b > start}
  IN  IF ahead = {}
      THEN IF start >= Len(s) THEN <<>> ELSE <<StripCR(SliceFrom(s, start))>>
      ELSE <<StripCR(Slice(s, start, MinOf(ahead) - 1))>> \o LinesFrom(s, breaks, MinOf(ahead))

\* str::lines: split at "\n"; a final line need not end in "\n"
Lines(s) == LinesFrom(s, {i \in 1..Len(s) : s[i] = "\n"}, 0)

\* the byte of a character (the characters package names are made of)
Byte(c) ==
  CASE c = "\t" -> 9 [] c = "\n" -> 10 [] c = "\r" -> 13 [] c = " " -> 32
    [] c = "(" -> 40 [] c = ")" -> 41 [] c = "-" -> 45 [] c = "<" -> 60
    [] c = "[" -> 91 [] c = "]" -> 93 [] c = "a" -> 97 [] c = "b" -> 98
    [] c = "c" -> 99 [] c = "x" -> 120 [] c = "z" -> 122

\* Ord for String: byte-wise lexicographic, a proper prefix first
RECURSIVE StrLess(_, _)
StrLess(s, t) ==
  IF t = <<>> THEN FALSE
  ELSE IF s = <<>> THEN TRUE
  ELSE IF Head(s) = Head(t) THEN StrLess(Tail(s), Tail(t))
  ELSE Byte(Head(s)) < Byte(Head(t))

\* insert x into an ascending list, after the elements not greater than it
RECURSIVE InsertSorted(_, _)
InsertSorted(x, l) ==
  IF l = <<>> THEN <<x>>
  ELSE IF StrLess(x, Head(l)) THEN <<x>> \o l
  ELSE <<Head(l)>> \o InsertSorted(x, Tail(l))

\* (mutant) the list is left in its order
Sort_Unsorted(l) == l

\* Vec<String>::sort (stable, ascending)
RECURSIVE Sort(_)
Sort(l) == IF l = <<>> THEN <<>> ELSE InsertSorted(l[Len(l)], Sort(SubSeq(l, 1, Len(l) - 1)))

\* concatenation of a list of strings
RECURSIVE Concat(_)
Concat(l) == IF l = <<>> THEN <<>> ELSE Head(l) \o Concat(Tail(l))

\* the elements of a list
Range(l) == {l[i] : i \in 1..Len(l)}

\* the lists over S of length at most n
SeqsUpTo(S, n) == UNION {[1..k -> S] : k \in 0..n}

-----------------------------------------------------------------------------
(* HashMap<String, bool> *)

EmptyMap == <<>>

\* (mutant) the first value inserted for a key is kept
Insert_KeepFirst(m, k, v) == [x \in (DOMAIN m) \cup {k} |-> IF x \in DOMAIN m THEN m[x] ELSE v]

\* HashMap::insert
Insert(m, k, v) == [x \in (DOMAIN m) \cup {k} |-> IF x = k THEN v ELSE m[x]]

\* HashMap::get(k).copied().unwrap_or(d)
GetOr(m, k, d) == IF k \in DOMAIN m THEN m[k] ELSE d

-----------------------------------------------------------------------------
(* The file system: what each path holds, None where there is nothing. A    *)
(* file holds its text; a directory that exists holds the empty text.        *)

\* the directory of the settings file and of the log: the current directory
\* under cargo, else <config dir>/brew-update-helper
ConfigDir == "brew-update-helper/"

\* Path::parent of the settings path and of the log path
Parent(path) == ConfigDir

\* the default settings path: ./brew-settings.md under cargo, else
\* <config dir>/brew-update-helper/settings.md
DefaultConfigPath == "settings.md"

\* the log path: ./brew-update-helper.log under cargo, else
\* <config dir>/brew-update-helper/upgrade.log
LogPath == "upgrade.log"

Paths == {ConfigDir, DefaultConfigPath, LogPath}

NoFiles == [p \in Paths |-> None]

\* the text of a file, empty where there is none
TextOf(file) == IF file = None THEN <<>> ELSE Unwrap(file)

-----------------------------------------------------------------------------
(* config.rs *)

\* get_config_path; located says whether a default location is known
\* (CARGO_MANIFEST_DIR is set, or dirs::config_dir() is Some)
get_config_path(custom_path, located) ==
  IF IsSome(custom_path) THEN [ok |-> TRUE, val |-> Unwrap(custom_path)]
  ELSE IF located THEN [ok |-> TRUE, val |-> DefaultConfigPath]
  ELSE [ok |-> FALSE]

CheckedPrefix == <<"-"," ","[","x","]">>

CheckedPrefixSp == <<"-"," ","[","x","]"," ">>

UncheckedPrefix == <<"-"," ","["," ","]">>

UncheckedPrefixSp == <<"-"," ","["," ","]"," ">>

\* (mutant) only the checked lines are read
ReadSettingsLine_IgnoresUnchecked(settings, rawline) ==
  LET line == Trim(rawline)
  IN  IF StartsWith(line, CheckedPrefix)
      THEN LET package == StripPrefix(line, CheckedPrefixSp)
           IN  IF IsSome(package) THEN Insert(settings, Trim(Unwrap(package)), TRUE)
               ELSE settings
      ELSE settings

\* (mutant) the name follows the checkbox without a space
ReadSettingsLine_NoSpace(settings, rawline) ==
  LET line == Trim(rawline)
  IN  IF StartsWith(line, CheckedPrefix)
      THEN Insert(settings, Trim(Unwrap(StripPrefix(line, CheckedPrefix))), TRUE)
      ELSE IF StartsWith(line, UncheckedPrefix)
      THEN Insert(settings, Trim(Unwrap(StripPrefix(line, UncheckedPrefix))), FALSE)
      ELSE settings

\* the body of the loop of read_existing_settings: one line of the file
ReadSettingsLine(settings, rawline) ==
  LET line == Trim(rawline)
  IN  IF StartsWith(line, CheckedPrefix)
      THEN LET package == StripPrefix(line, CheckedPrefixSp)
           IN  IF IsSome(package) THEN Insert(settings, Trim(Unwrap(package)), TRUE)
               ELSE settings
      ELSE IF StartsWith(line, UncheckedPrefix)
      THEN LET package == StripPrefix(line, UncheckedPrefixSp)
           IN  IF IsSome(package) THEN Insert(settings, Trim(Unwrap(package)), FALSE)
               ELSE settings
      ELSE settings

RECURSIVE ReadSettingsLines(_, _)
ReadSettingsLines(settings, lines) ==
  IF lines = <<>> THEN settings
  ELSE ReadSettingsLines(ReadSettingsLine(settings, Head(lines)), Tail(lines))

\* read_existing_settings on a path that holds no file (None) or a file
\* (Some(content)), when the read itself does not fail
read_existing_settings(file) ==
  IF file = None THEN EmptyMap
  ELSE ReadSettingsLines(EmptyMap, Lines(Unwrap(file)))

TitleText ==
  <<"#"," ","B","r","e","w"," ","A","u","t","o","-","U","p","d","a","t","e"," ",
    "S","e","t","t","i","n","g","s","\n","\n">>

GeneratedOn == <<"G","e","n","e","r","a","t","e","d"," ","o","n",":"," ">>

FormulaeHeaderText == <<"#","#"," ","F","o","r","m","u","l","a","e","\n","\n">>

CasksHeaderText == <<"\n","#","#"," ","C","a","s","k","s","\n","\n">>

\* (mutant) a name that is no key of the map is rendered disabled
RenderDefault_Disabled == FALSE

\* the default of a name that is no key of the map, when rendering
RenderDefault == TRUE

\* format!("- {} {}\n", checkbox, name)
EntryLine(existing_settings, name) ==
  LET enabled  == GetOr(existing_settings, name, RenderDefault)
      checkbox == IF enabled THEN <<"[","x","]">> ELSE <<"["," ","]">>
  IN  <<"-"," ">> \o checkbox \o <<" ">> \o name \o <<"\n">>

\* (mutant) a name listed twice is rendered once
SectionEntries_Deduped(names, existing_settings) ==
  LET sorted == Sort(names)
  IN  Concat([i \in 1..Len(sorted) |->
                IF i > 1 /\ sorted[i] = sorted[i - 1] THEN <<>>
                ELSE EntryLine(existing_settings, sorted[i])])

\* the entries of one section: the names sorted, one line each
SectionEntries(names, existing_settings) ==
  LET sorted == Sort(names)
  IN  Concat([i \in 1..Len(sorted) |-> EntryLine(existing_settings, sorted[i])])

\* generate_settings_content; stats is None or Some(the markdown of the
\* statistics), now is Utc::now() in the format "%Y-%m-%d %H:%M:%S UTC"
generate_settings_content(formulae, casks, existing_settings, stats, now) ==
  TitleText
    \o GeneratedOn \o now \o <<"\n","\n">>
    \o (IF IsSome(stats) THEN Unwrap(stats) ELSE <<>>)
    \o FormulaeHeaderText
    \o SectionEntries(formulae, existing_settings)
    \o CasksHeaderText
    \o SectionEntries(casks, existing_settings)

-----------------------------------------------------------------------------
(* brew.rs *)

\* Result<T>
Ok(v) == [ok |-> TRUE, val |-> v]

Err == [ok |-> FALSE]

PackageTypes == {"Formula", "Cask"}

\* (mutant) the text after the " (" starts one character early
AfterOpenParen_OffByOne(line, pos) == SliceFrom(line, pos + 1)

\* &line[pos + 2..]: the text after the " (" found at pos
AfterOpenParen(line, pos) == SliceFrom(line, pos + 2)

\* (mutant) the remainder is not trimmed
Remainder_NoTrim(rest, end_paren) == SliceFrom(rest, end_paren + 2)

\* rest[end_paren + 2..].trim(): the text after the ") " found at end_paren
Remainder(rest, end_paren) == Trim(SliceFrom(rest, end_paren + 2))

\* remainder[space_pos + 1..].trim(): the text after the operator
AvailableVersion(remainder, space_pos) == Trim(SliceFrom(remainder, space_pos + 1))

parse_outdated_line(line, package_type) ==
  LET pos == Find(line, <<" ", "(">>)
  IN  IF pos = None THEN None
      ELSE
        LET name      == Trim(Slice(line, 0, Unwrap(pos)))
            rest      == AfterOpenParen(line, Unwrap(pos))
            end_paren == Find(rest, <<")", " ">>)
        IN  IF end_paren = None THEN None
            ELSE
              LET current_version == Slice(rest, 0, Unwrap(end_paren))
                  remainder       == Remainder(rest, Unwrap(end_paren))
                  space_pos       == Find(remainder, <<" ">>)
              IN  IF space_pos = None THEN None
                  ELSE Some([name              |-> name,
                             current_version   |-> current_version,
                             available_version |-> AvailableVersion(remainder, Unwrap(space_pos)),
                             package_type      |-> package_type])

\* (mutant) a record whose name is already listed is dropped
PushParsed_Dedup(outdated, line, package_type) ==
  LET package == parse_outdated_line(line, package_type)
  IN  IF IsSome(package) /\ \A i \in 1..Len(outdated) : outdated[i].name # Unwrap(package).name
      THEN Append(outdated, Unwrap(package))
      ELSE outdated

\* outdated.push(package) for a parsed line, nothing for the others
PushParsed(outdated, line, package_type) ==
  LET package == parse_outdated_line(line, package_type)
  IN  IF IsSome(package) THEN Append(outdated, Unwrap(package)) ELSE outdated

\* for line in text.lines() { if let Some(package) = ... { outdated.push(package) } }
RECURSIVE ParseListing(_, _, _)
ParseListing(outdated, lines, package_type) ==
  IF lines = <<>> THEN outdated
  ELSE ParseListing(PushParsed(outdated, Head(lines), package_type), Tail(lines), package_type)

\* The Output of one `brew outdated` process: spawned says whether
\* Command::output() returned Ok, success is output.status.success(), utf8
\* whether stdout is valid UTF-8, stdout its text.
\* SystemBrewExecutor::get_outdated_packages on the outputs of its two commands
get_outdated_packages(formulae_output, casks_output) ==
  IF ~formulae_output.spawned THEN Err
  ELSE IF formulae_output.success /\ ~formulae_output.utf8 THEN Err
  ELSE
    LET afterFormulae ==
          IF formulae_output.success
          THEN ParseListing(<<>>, Lines(formulae_output.stdout), "Formula")
          ELSE <<>>
    IN  IF ~casks_output.spawned THEN Err
        ELSE IF casks_output.success /\ ~casks_output.utf8 THEN Err
        ELSE IF casks_output.success
             THEN Ok(ParseListing(afterFormulae, Lines(casks_output.stdout), "Cask"))
             ELSE Ok(afterFormulae)

-----------------------------------------------------------------------------
(* The inputs of the parser specification. *)

\* the characters of a free-form line
LineAlphabet == {" ", "(", ")", "a"}

Operators == {<<"<">>, <<"!", "=">>}

FreeLines == SeqsUpTo(LineAlphabet, MaxLineLen)

\* the names, versions and available versions of the composed lines
Parts ==
  { <<>>, <<"a">>, <<" ">>, <<"\t">>, <<" ", "a">>, <<"a", " ">>, <<"a", " ", "a">>,
    <<"(">>, <<"a", ")">> }

\* "<name> (<cur>) <op> <avail>"
Compose(name, cur, op, avail) ==
  name \o <<" ", "(">> \o cur \o <<")", " ">> \o op \o <<" ">> \o avail

ComposedLines ==
  {Compose(n, c, o, a) : n \in Parts, c \in Parts, o \in Operators, a \in Parts}

\* the lines of a `brew outdated --verbose` listing
ListingLines ==
  { <<"a", " ", "(", "1", ")", " ", "<", " ", "2">>,
    <<"b", " ", "(", "1", ")", " ", "!", "=", " ", "2">>,
    <<"a", " ", "1">>,
    <<>> }

\* a listing of at most MaxOutLines lines, each ended by "\n"
Listings ==
  {Concat([i \in 1..Len(l) |-> l[i] \o <<"\n">>]) : l \in SeqsUpTo(ListingLines, MaxOutLines)}

\* the Outputs get_outdated_packages can meet: a process that did not start, one
\* that wrote bytes that are no UTF-8, one that ended with or without success
Outputs ==
  {[spawned |-> FALSE, success |-> FALSE, utf8 |-> TRUE, stdout |-> <<>>],
   [spawned |-> TRUE, success |-> TRUE, utf8 |-> FALSE, stdout |-> <<>>]}
  \cup {[spawned |-> TRUE, success |-> s, utf8 |-> TRUE, stdout |-> t] :
          s \in BOOLEAN, t \in Listings}

NoOutput == [fn |-> "none"]

ParseInit ==
  /\ fsys = NoFiles
  /\ cmd = [kind |-> "none"]
  /\ out = NoOutput
  /\ \/ \E line \in FreeLines \cup ComposedLines :
          inp = [fn |-> "parse_outdated_line", line |-> line]
     \/ \E f \in Outputs, c \in Outputs :
          inp = [fn |-> "get_outdated_packages", formulae_output |-> f, casks_output |-> c]

\* a call of parse_outdated_line
ParseLine ==
  /\ inp.fn = "parse_outdated_line"
  /\ out = NoOutput
  /\ \E package_type \in PackageTypes :
       out' = [fn |-> "parse_outdated_line", package_type |-> package_type,
               result |-> parse_outdated_line(inp.line, package_type)]
  /\ UNCHANGED <<fsys, cmd, inp>>

\* a call of SystemBrewExecutor::get_outdated_packages
GetOutdated ==
  /\ inp.fn = "get_outdated_packages"
  /\ out = NoOutput
  /\ out' = [fn |-> "get_outdated_packages",
             result |-> get_outdated_packages(inp.formulae_output, inp.casks_output)]
  /\ UNCHANGED <<fsys, cmd, inp>>

ParseNext == ParseLine \/ GetOutdated

SpecParse == ParseInit /\ [][ParseNext]_vars

-----------------------------------------------------------------------------
(* The parser's claims, checked under SpecParse. *)

\* p occurs in s
HasSub(s, p) == \E i \in 0..(Len(s) - Len(p)) : Slice(s, i, i + Len(p)) = p

OpenParen == <<" ", "(">>

CloseParen == <<")", " ">>

\* neither " (" nor ") " occurs in s
NoDelimiter(s) == ~HasSub(s, OpenParen) /\ ~HasSub(s, CloseParen)

NoWhitespace(s) == \A i \in 1..Len(s) : ~IsWhitespace(s[i])

\* The ways to read line as "<name> (<cur>) <op> <avail>": the offsets of the
\* " (", of the ") " and of the space that ends the operator.
Readings(line) ==
  {r \in (0..Len(line)) \X (0..Len(line)) \X (0..Len(line)) :
     /\ r[1] + 2 <= r[2] /\ r[2] + 2 <= r[3] /\ r[3] < Len(line)
     /\ Slice(line, r[1], r[1] + 2) = OpenParen
     /\ Slice(line, r[2], r[2] + 2) = CloseParen
     /\ line[r[3] + 1] = " "}

NameOf(line, r) == Slice(line, 0, r[1])

CurOf(line, r) == Slice(line, r[1] + 2, r[2])

OpOf(line, r) == Slice(line, r[2] + 2, r[3])

AvailOf(line, r) == SliceFrom(line, r[3] + 1)

\* the parts are as C5 asks: no delimiter in name, cur and avail, and the
\* operator a token without spaces
PartsAsClaimed(line, r) ==
  /\ NoDelimiter(NameOf(line, r)) /\ NoDelimiter(CurOf(line, r))
  /\ NoDelimiter(AvailOf(line, r))
  /\ OpOf(line, r) # <<>> /\ \A i \in 1..Len(OpOf(line, r)) : OpOf(line, r)[i] # " "

\* moreover name and avail have no whitespace at either end, avail is not
\* empty and the operator holds no whitespace at all
PartsTrimmed(line, r) ==
  /\ Trim(NameOf(line, r)) = NameOf(line, r)
  /\ Trim(AvailOf(line, r)) = AvailOf(line, r)
  /\ AvailOf(line, r) # <<>>
  /\ NoWhitespace(OpOf(line, r))

ParsedAs(line, r) ==
  Some([name              |-> NameOf(line, r),
        current_version   |-> CurOf(line, r),
        available_version |-> AvailOf(line, r),
        package_type      |-> out.package_type])

\* C5 as stated: every line "<name> (<cur>) <op> <avail>" whose name, cur and
\* avail hold neither " (" nor ") " and whose op is a token without spaces is
\* parsed into exactly these parts and the given kind (read here with a name,
\* a version and an available version that are not empty).
C5_Original ==
  out.fn = "parse_outdated_line" =>
    \A r \in Readings(inp.line) :
      (/\ PartsAsClaimed(inp.line, r)
       /\ NameOf(inp.line, r) # <<>> /\ CurOf(inp.line, r) # <<>>
       /\ AvailOf(inp.line, r) # <<>>)
        => out.result = ParsedAs(inp.line, r)

\* C5 amended: the same, for the lines whose name and avail moreover have no
\* leading or trailing whitespace, whose avail is not empty and whose op holds
\* no whitespace: parse_outdated_line returns name, cur, avail and the kind.
C5_ParsesWellFormed ==
  out.fn = "parse_outdated_line" =>
    \A r \in Readings(inp.line) :
      (PartsAsClaimed(inp.line, r) /\ PartsTrimmed(inp.line, r))
        => out.result = ParsedAs(inp.line, r)

\* a well-formed line with a name, a version and an available version was parsed
C5_Witness ==
  /\ out.fn = "parse_outdated_line"
  /\ \E r \in Readings(inp.line) :
       /\ PartsAsClaimed(inp.line, r) /\ PartsTrimmed(inp.line, r)
       /\ NameOf(inp.line, r) # <<>> /\ CurOf(inp.line, r) # <<>>
       /\ out.result = ParsedAs(inp.line, r)

\* the offset of the first occurrence of p in s, which has one
FirstAt(s, p) ==
  CHOOSE i \in 0..(Len(s) - Len(p)) :
    /\ Slice(s, i, i + Len(p)) = p
    /\ \A h \in 0..(i - 1) : Slice(s, h, h + Len(p)) # p

\* the text after the first " (" of a line that has one
AfterFirstOpen(line) == SliceFrom(line, FirstAt(line, OpenParen) + 2)

\* the trimmed text after the first ") " that follows the first " ("
TrimmedRemainder(line) ==
  Trim(SliceFrom(AfterFirstOpen(line), FirstAt(AfterFirstOpen(line), CloseParen) + 2))

\* the three ways a line yields no record
Unparsable(line) ==
  \/ ~HasSub(line, OpenParen)
  \/ ~HasSub(AfterFirstOpen(line), CloseParen)
  \/ \A i \in 1..Len(TrimmedRemainder(line)) : TrimmedRemainder(line)[i] # " "

\* C6: parse_outdated_line returns no record for a line without " (", or
\* without ") " after the first " (", or whose trimmed remainder after that
\* ") " holds no space, and returns a record for every other line.
C6_NoRecordIffMalformed ==
  out.fn = "parse_outdated_line" => ((out.result = None) <=> Unparsable(inp.line))

\* a line with " (" and ") " whose remainder holds a space only before it is
\* trimmed was given to the parser, which returned nothing
C6_Witness ==
  /\ out.fn = "parse_outdated_line"
  /\ out.result = None
  /\ HasSub(inp.line, OpenParen)
  /\ HasSub(AfterFirstOpen(inp.line), CloseParen)
  /\ \E i \in 1..Len(inp.line) :
       i > FirstAt(AfterFirstOpen(inp.line), CloseParen) + FirstAt(inp.line, OpenParen) + 4
       /\ inp.line[i] = " "

\* the records of the lines of a listing that parse, in the order of the lines
RecordsOf(lines, package_type) ==
  LET idx == {i \in 1..Len(lines) : parse_outdated_line(lines[i], package_type) # None}
      nth(k) == CHOOSE i \in idx : Cardinality({h \in idx : h < i}) = k - 1
  IN  [k \in 1..Cardinality(idx) |-> Unwrap(parse_outdated_line(lines[nth(k)], package_type))]

\* what a listing contributes: nothing when its command did not end with
\* success (its output is then not read)
Contribution(output, package_type) ==
  IF output.success THEN RecordsOf(Lines(output.stdout), package_type) ELSE <<>>

\* the call fails for a reason that is no line's shape: a process that could
\* not be run, or an output that is no UTF-8
ProcessFailure(output) == ~output.spawned \/ (output.success /\ ~output.utf8)

\* C7: get_outdated_packages never aborts because of a malformed line (it
\* returns Err only when a process cannot be run or its output is no UTF-8),
\* and its result is the records of the well-formed formula lines in output
\* order, then those of the well-formed cask lines, malformed lines
\* contributing nothing and duplicate names kept.
C7_OutdatedIsParsedLines ==
  out.fn = "get_outdated_packages" =>
    /\ out.result.ok <=>
         ~(ProcessFailure(inp.formulae_output) \/ ProcessFailure(inp.casks_output))
    /\ out.result.ok =>
         out.result.val = Contribution(inp.formulae_output, "Formula")
                            \o Contribution(inp.casks_output, "Cask")

\* both listings were read, one holds a malformed line, and the result holds
\* the same name twice
C7_Witness ==
  /\ out.fn = "get_outdated_packages"
  /\ out.result.ok
  /\ inp.formulae_output.success /\ inp.casks_output.success
  /\ \E i \in 1..Len(Lines(inp.formulae_output.stdout)) :
       parse_outdated_line(Lines(inp.formulae_output.stdout)[i], "Formula") = None
  /\ \E i, j \in 1..Len(out.result.val) :
       i < j /\ out.result.val[i].name = out.result.val[j].name

-----------------------------------------------------------------------------
(* The inputs of the checklist specification: a rendering and its reading. *)

\* Utc::now().format("%Y-%m-%d %H:%M:%S UTC")
Clock ==
  { <<"2","0","2","4","-","0","8","-","2","2"," ","1","0",":","3","0",":","0","0"," ","U","T","C">>,
    <<"2","0","2","4","-","0","8","-","2","3"," ","0","7",":","0","5",":","5","9"," ","U","T","C">> }

\* the names given to the renderer; the last one has a leading space
RenderNames == { <<"a">>, <<"b">>, <<" ", "b">> }

\* the keys of the enablement maps; "z" is no name of an inventory
MapKeys == { <<"a">>, <<"b">>, <<"z">> }

EnablementMaps == UNION {[K -> BOOLEAN] : K \in SUBSET MapKeys}

ChecklistInit ==
  /\ fsys = NoFiles
  /\ cmd = [kind |-> "none"]
  /\ out = NoOutput
  /\ \E formulae \in SeqsUpTo(RenderNames, MaxRender),
        casks \in SeqsUpTo(RenderNames, MaxRender),
        existing_settings \in EnablementMaps,
        now \in Clock :
       inp = [fn |-> "generate_settings_content", formulae |-> formulae, casks |-> casks,
              existing_settings |-> existing_settings, now |-> now]

\* generate_settings_content(formulae, casks, settings, None), its text written to
\* a file and read back by read_existing_settings
RenderAndRead ==
  /\ inp.fn = "generate_settings_content"
  /\ out = NoOutput
  /\ LET content == generate_settings_content(inp.formulae, inp.casks,
                                               inp.existing_settings, None, inp.now)
     IN  out' = [fn |-> "generate_settings_content", content |-> content,
                 reread |-> read_existing_settings(Some(content))]
  /\ UNCHANGED <<fsys, cmd, inp>>

ChecklistNext == RenderAndRead

SpecChecklist == ChecklistInit /\ [][ChecklistNext]_vars

-----------------------------------------------------------------------------
(* The checklist's claims, checked under SpecChecklist. *)

FormulaeHeader == <<"#","#"," ","F","o","r","m","u","l","a","e">>

CasksHeader == <<"#","#"," ","C","a","s","k","s">>

\* the index of the first line equal to l, 0 when there is none
LineIndex(lines, l) ==
  IF \E i \in 1..Len(lines) : lines[i] = l
  THEN MinOf({i \in 1..Len(lines) : lines[i] = l})
  ELSE 0

\* the lines of a document between "## Formulae" and "## Casks"
FormulaeSection(content) ==
  LET lines == Lines(content)
  IN  SubSeq(lines, LineIndex(lines, FormulaeHeader) + 1, LineIndex(lines, CasksHeader) - 1)

\* the lines of a document after "## Casks"
CasksSection(content) ==
  LET lines == Lines(content)
  IN  SubSeq(lines, LineIndex(lines, CasksHeader) + 1, Len(lines))

CheckedLine(name) == <<"-"," ","[","x","]"," ">> \o name

UncheckedLine(name) == <<"-"," ","["," ","]"," ">> \o name

\* name is rendered in this section as checked (TRUE) or unchecked (FALSE) only
RenderedAs(section, name, flag) ==
  IF flag
  THEN CheckedLine(name) \in Range(section) /\ UncheckedLine(name) \notin Range(section)
  ELSE UncheckedLine(name) \in Range(section) /\ CheckedLine(name) \notin Range(section)

\* the names of the entry lines of a section as they were written, in the order
\* of the section: what follows the checkbox and its space
WrittenNames(section) ==
  LET entries == SelectSeq(section, LAMBDA l :
                   StartsWith(l, CheckedPrefixSp) \/ StartsWith(l, UncheckedPrefixSp))
  IN  [i \in 1..Len(entries) |-> SliceFrom(entries[i], Len(CheckedPrefixSp))]

\* no element of the list is before an element that is less than it
Ascending(l) == \A i, j \in 1..Len(l) : i < j => ~StrLess(l[j], l[i])

\* C16: in the text generate_settings_content returns, the entries of the
\* Formulae section are in ascending order of name and so are the entries of
\* the Casks section, in whatever order the two lists were passed.
C16_SectionsAscending ==
  out.fn = "generate_settings_content" =>
    /\ Len(WrittenNames(FormulaeSection(out.content))) = Len(inp.formulae)
    /\ Ascending(WrittenNames(FormulaeSection(out.content)))
    /\ Len(WrittenNames(CasksSection(out.content))) = Len(inp.casks)
    /\ Ascending(WrittenNames(CasksSection(out.content)))

\* a document was generated from a formulae list and a casks list that were
\* both passed in descending order
C16_Witness ==
  /\ out.fn = "generate_settings_content"
  /\ Len(inp.formulae) = 2 /\ StrLess(inp.formulae[2], inp.formulae[1])
  /\ Len(inp.casks) = 2 /\ StrLess(inp.casks[2], inp.casks[1])

\* C8: in the rendered text every name of the formulae list and of the casks
\* list is "- [x] <name>" when the map has no key for it or maps it to true,
\* and "- [ ] <name>" exactly when the map maps it to false.
C8_RenderedFlags ==
  out.fn = "generate_settings_content" =>
    /\ \A i \in 1..Len(inp.formulae) :
         RenderedAs(FormulaeSection(out.content), inp.formulae[i],
                    ~(inp.formulae[i] \in DOMAIN inp.existing_settings
                      /\ inp.existing_settings[inp.formulae[i]] = FALSE))
    /\ \A i \in 1..Len(inp.casks) :
         RenderedAs(CasksSection(out.content), inp.casks[i],
                    ~(inp.casks[i] \in DOMAIN inp.existing_settings
                      /\ inp.existing_settings[inp.casks[i]] = FALSE))

\* a rendering with a formula that has no key, a formula mapped to false and a
\* cask mapped to true
C8_Witness ==
  /\ out.fn = "generate_settings_content"
  /\ \E i, j \in 1..Len(inp.formulae) :
       /\ inp.formulae[i] \notin DOMAIN inp.existing_settings
       /\ inp.formulae[j] \in DOMAIN inp.existing_settings
       /\ ~inp.existing_settings[inp.formulae[j]]
       /\ CheckedLine(inp.formulae[i]) \in Range(FormulaeSection(out.content))
       /\ UncheckedLine(inp.formulae[j]) \in Range(FormulaeSection(out.content))
  /\ \E i \in 1..Len(inp.casks) :
       /\ inp.casks[i] \in DOMAIN inp.existing_settings
       /\ inp.existing_settings[inp.casks[i]]
       /\ CheckedLine(inp.casks[i]) \in Range(CasksSection(out.content))

\* the names of an inventory
InventoryNames(formulae, casks) == Range(formulae) \cup Range(casks)

\* a map restricted to the keys in S
Restrict(map, S) == [k \in (DOMAIN map) \cap S |-> map[k]]

\* a name as the package manager lists it: not empty, without whitespace at
\* either end, without a line break
PlainName(name) ==
  name # <<>> /\ Trim(name) = name /\ \A i \in 1..Len(name) : name[i] # "\n"

\* C4 as stated: reading the text rendered from (formulae, casks, E, None)
\* returns exactly E restricted to the names of formulae and casks.
C4_Original ==
  out.fn = "generate_settings_content" =>
    out.reread = Restrict(inp.existing_settings, InventoryNames(inp.formulae, inp.casks))

\* C4 amended: when every name of formulae and casks is not empty and has no
\* whitespace at either end and no line break, reading the rendered text
\* returns the map whose keys are the names of formulae and casks, each mapped
\* to its flag in E, and to true when E has no key for it.
C4_RoundTrip ==
  out.fn = "generate_settings_content" =>
    ((\A n \in InventoryNames(inp.formulae, inp.casks) : PlainName(n)) =>
       out.reread = [n \in InventoryNames(inp.formulae, inp.casks) |->
                       IF n \in DOMAIN inp.existing_settings
                       THEN inp.existing_settings[n] ELSE TRUE])

\* a round trip of plain names where E disables a formula, has no key for a
\* cask and has a key that is in neither list
C4_Witness ==
  /\ out.fn = "generate_settings_content"
  /\ \A n \in InventoryNames(inp.formulae, inp.casks) : PlainName(n)
  /\ \E n \in Range(inp.formulae) :
       n \in DOMAIN inp.existing_settings /\ ~inp.existing_settings[n]
       /\ n \in DOMAIN out.reread /\ ~out.reread[n]
  /\ \E n \in Range(inp.casks) :
       n \notin DOMAIN inp.existing_settings /\ n \in DOMAIN out.reread /\ out.reread[n]
  /\ \E k \in DOMAIN inp.existing_settings :
       k \notin InventoryNames(inp.formulae, inp.casks) /\ k \notin DOMAIN out.reread

-----------------------------------------------------------------------------
(* commands.rs: dump_command, and the life of the settings file. *)

\* the names the package manager reports as installed
Installed == { <<"a">>, <<"b">> }

\* what the environment answers to one run of dump_command: whether a default
\* location is known, the two inventories, whether an existing settings file
\* can be read, whether its directory can be created, what fs::write does
\* ("ok", "fails" before the file is opened, "truncates" it and then fails),
\* and the time
DumpAnswer(located, formulae, casks, readable, mkdir, write, now) ==
  [located |-> located, formulae |-> formulae, casks |-> casks, readable |-> readable,
   mkdir |-> mkdir, write |-> write, now |-> now]

\* the inventories <<formulae, casks>> of at most MaxInstalled packages
Inventories ==
  {i \in SeqsUpTo(Installed, MaxInstalled) \X SeqsUpTo(Installed, MaxInstalled) :
     Len(i[1]) + Len(i[2]) <= MaxInstalled}

\* every inventory when nothing fails, and one answer for each failure
DumpAnswers ==
  {DumpAnswer(TRUE, Ok(i[1]), Ok(i[2]), TRUE, TRUE, "ok", now) :
     i \in Inventories, now \in Clock}
  \cup
  (LET f == Ok(<< <<"a">> >>)
       c == Ok(<< <<"b">> >>)
       now == CHOOSE t \in Clock : TRUE
   IN  { DumpAnswer(FALSE, f, c, TRUE, TRUE, "ok", now),
         DumpAnswer(TRUE, Err, c, TRUE, TRUE, "ok", now),
         DumpAnswer(TRUE, f, Err, TRUE, TRUE, "ok", now),
         DumpAnswer(TRUE, f, c, FALSE, TRUE, "ok", now),
         DumpAnswer(TRUE, f, c, TRUE, FALSE, "ok", now),
         DumpAnswer(TRUE, f, c, TRUE, TRUE, "fails", now),
         DumpAnswer(TRUE, f, c, TRUE, TRUE, "truncates", now) })

\* (mutant) a settings file that does not exist is an error
read_existing_settings_result_MissingIsError(file, readable) ==
  IF file = None \/ ~readable THEN Err ELSE Ok(read_existing_settings(file))

\* read_existing_settings as a Result; readable says whether
\* fs::read_to_string succeeds on a file that exists
read_existing_settings_result(file, readable) ==
  IF file # None /\ ~readable THEN Err ELSE Ok(read_existing_settings(file))

\* the record of a run of dump_command: its flag, its result, the call it
\* returned from ("done" at its end), and the locals it had bound by then
DumpRun(dry_run, ok, exit, formulae, casks, existing_settings) ==
  [kind |-> "dump", dry_run |-> dry_run, ok |-> ok, exit |-> exit,
   formulae |-> formulae, casks |-> casks, existing_settings |-> existing_settings]

\* (mutant) the directory is made whether or not the run is dry
WriteSettings_MakesDir(files, path, settings_content, dry_run, answer) ==
  [exit |-> "done", fsys |-> [files EXCEPT ![Parent(path)] = Some(<<>>)]]

\* the end of dump_command: a dry run prints, any other run makes the
\* directory of the settings file and writes the file
WriteSettings(files, path, settings_content, dry_run, answer) ==
  IF dry_run THEN [exit |-> "done", fsys |-> files]
  ELSE IF ~answer.mkdir THEN [exit |-> "create_dir_all", fsys |-> files]
  ELSE LET made == [files EXCEPT ![Parent(path)] = Some(<<>>)]
       IN  IF answer.write = "fails" THEN [exit |-> "write", fsys |-> made]
           ELSE IF answer.write = "truncates"
           THEN [exit |-> "write", fsys |-> [made EXCEPT ![path] = Some(<<>>)]]
           ELSE [exit |-> "done", fsys |-> [made EXCEPT ![path] = Some(settings_content)]]

\* (mutant) an error return leaves the default settings file empty
DumpFailed_Truncates(files, dry_run, exit, formulae, casks, settings) ==
  [fsys |-> [files EXCEPT ![DefaultConfigPath] = Some(<<>>)],
   run |-> DumpRun(dry_run, FALSE, exit, formulae, casks, settings)]

\* a return of dump_command by `?` before it touches a file
DumpFailed(files, dry_run, exit, formulae, casks, settings) ==
  [fsys |-> files, run |-> DumpRun(dry_run, FALSE, exit, formulae, casks, settings)]

\* dump_command: the files and the record it leaves
dump_command(files, config, dry_run, answer) ==
  LET config_path == get_config_path(config, answer.located)
      failed(exit, formulae, casks, settings) ==
        DumpFailed(files, dry_run, exit, formulae, casks, settings)
  IN  IF ~config_path.ok THEN failed("get_config_path", <<>>, <<>>, EmptyMap)
      ELSE IF ~answer.formulae.ok
      THEN failed("get_manually_installed_formulae", <<>>, <<>>, EmptyMap)
      ELSE IF ~answer.casks.ok
      THEN failed("get_manually_installed_casks", answer.formulae.val, <<>>, EmptyMap)
      ELSE
        LET path     == config_path.val
            formulae == answer.formulae.val
            casks    == answer.casks.val
            read     == read_existing_settings_result(files[path], answer.readable)
        IN  IF ~read.ok
            THEN failed("read_existing_settings", formulae, casks, EmptyMap)
            ELSE
              LET existing_settings == read.val
                  settings_content  ==
                    generate_settings_content(formulae, casks, existing_settings, None, answer.now)
                  end == WriteSettings(files, path, settings_content, dry_run, answer)
              IN  [fsys |-> end.fsys,
                   run |-> DumpRun(dry_run, end.exit = "done", end.exit,
                                   formulae, casks, existing_settings)]

\* the settings path of a history: every run is given no --config
HistoryConfig == None

\* one run of `dump`
DumpCommand ==
  /\ cmd.kind # "upgrade"
  /\ \E dry_run \in BOOLEAN, answer \in DumpAnswers :
       \E r \in {dump_command(fsys, HistoryConfig, dry_run, answer)} :
         fsys' = r.fsys /\ cmd' = r.run
  /\ UNCHANGED <<inp, out>>

\* the offsets in a text where a line starts with a checkbox entry
Checkboxes(text) ==
  {i \in 1..(Len(text) - 5) :
     /\ i = 1 \/ text[i - 1] = "\n"
     /\ SubSeq(text, i, i + 5) \in {CheckedPrefixSp, UncheckedPrefixSp}}

\* the user ticks or unticks one entry of the settings file in an editor
UserToggle ==
  /\ cmd.kind # "upgrade"
  /\ fsys[DefaultConfigPath] # None
  /\ \E i \in Checkboxes(Unwrap(fsys[DefaultConfigPath])) :
       LET text == Unwrap(fsys[DefaultConfigPath])
       IN  fsys' = [fsys EXCEPT ![DefaultConfigPath] =
                      Some([text EXCEPT ![i + 3] = IF text[i + 3] = "x" THEN " " ELSE "x"])]
  /\ cmd' = [kind |-> "edit"]
  /\ UNCHANGED <<inp, out>>

Init ==
  /\ fsys = NoFiles
  /\ cmd = [kind |-> "none"]
  /\ inp = [fn |-> "none"]
  /\ out = NoOutput

Next == DumpCommand \/ UserToggle

Spec == Init /\ [][Next]_vars

-----------------------------------------------------------------------------
(* The claims about dumps, checked under Spec. *)

\* the checkbox entry a line of a settings file holds, if it holds one
EntryOf(line) ==
  LET t == Trim(line)
  IN  IF StartsWith(t, CheckedPrefixSp)
      THEN Some([name |-> Trim(SliceFrom(t, 6)), flag |-> TRUE])
      ELSE IF StartsWith(t, UncheckedPrefixSp)
      THEN Some([name |-> Trim(SliceFrom(t, 6)), flag |-> FALSE])
      ELSE None

\* the entries of some lines, in their order
EntriesOf(lines) ==
  LET held == SelectSeq(lines, LAMBDA l : IsSome(EntryOf(l)))
  IN  [i \in 1..Len(held) |-> Unwrap(EntryOf(held[i]))]

\* the flags of the entries of a name in a text, in the order of the text
FlagsOf(text, name) ==
  LET named == SelectSeq(EntriesOf(Lines(text)), LAMBDA e : e.name = name)
  IN  [i \in 1..Len(named) |-> named[i].flag]

\* how often x is in the list l
Count(l, x) == Cardinality({i \in 1..Len(l) : l[i] = x})

\* the lists l and m hold the same elements, each as often
SameElements(l, m) ==
  Len(l) = Len(m) /\ \A x \in Range(l) \cup Range(m) : Count(l, x) = Count(m, x)

\* the names of the entries of some lines
NamesOf(lines) == [i \in 1..Len(EntriesOf(lines)) |-> EntriesOf(lines)[i].name]

\* the state is the one a run of dump left after it wrote the settings file
DumpWrote(run) == run.kind = "dump" /\ run.ok /\ ~run.dry_run

\* C2 as stated: a dump that writes the file writes every package of its
\* inventory that had an entry in the file it read with the flag of that
\* entry, and every package without an entry enabled.
C2_Original ==
  [][DumpWrote(cmd') =>
       \A name \in InventoryNames(cmd'.formulae, cmd'.casks) :
         LET before == FlagsOf(TextOf(fsys[DefaultConfigPath]), name)
             after  == FlagsOf(TextOf(fsys'[DefaultConfigPath]), name)
         IN  /\ after # <<>>
             /\ \A j \in 1..Len(after) :
                  IF before = <<>> THEN after[j]
                  ELSE \A i \in 1..Len(before) : after[j] = before[i]]_vars

\* C2 amended: in every history of dumps and edits of checkboxes, a dump
\* that writes the file writes every entry of a package of its inventory with
\* the flag of the LAST entry that name had in the file the dump read, and
\* writes it enabled when the name had no entry.
C2_PreservesLastFlag ==
  [][DumpWrote(cmd') =>
       \A name \in InventoryNames(cmd'.formulae, cmd'.casks) :
         LET before == FlagsOf(TextOf(fsys[DefaultConfigPath]), name)
             after  == FlagsOf(TextOf(fsys'[DefaultConfigPath]), name)
         IN  /\ after # <<>>
             /\ \A j \in 1..Len(after) :
                  IF before = <<>> THEN after[j]
                  ELSE after[j] = before[Len(before)]]_vars

\* a dump has written a package that was disabled before it as disabled and a
\* package it had no entry for as enabled
C2_Witness ==
  /\ DumpWrote(cmd)
  /\ \E name \in InventoryNames(cmd.formulae, cmd.casks) :
       /\ name \in DOMAIN cmd.existing_settings
       /\ ~cmd.existing_settings[name]
       /\ FlagsOf(TextOf(fsys[DefaultConfigPath]), name) = <<FALSE>>
  /\ \E name \in InventoryNames(cmd.formulae, cmd.casks) :
       /\ name \notin DOMAIN cmd.existing_settings
       /\ FlagsOf(TextOf(fsys[DefaultConfigPath]), name) = <<TRUE>>

\* C9: after a dump that writes the file, the entries under "## Formulae" are
\* one per element of the installed-formulae list, those under "## Casks" one
\* per element of the installed-casks list, the file holds no other entry, and
\* a key of the map the dump read that is in neither list has no entry.
C9_EntriesAreInventory ==
  DumpWrote(cmd) =>
    LET text == TextOf(fsys[DefaultConfigPath])
    IN  /\ SameElements(NamesOf(FormulaeSection(text)), cmd.formulae)
        /\ SameElements(NamesOf(CasksSection(text)), cmd.casks)
        /\ Len(EntriesOf(Lines(text))) = Len(cmd.formulae) + Len(cmd.casks)
        /\ \A key \in DOMAIN cmd.existing_settings :
             key \notin InventoryNames(cmd.formulae, cmd.casks) => FlagsOf(text, key) = <<>>

\* a dump of a formula installed twice has pruned a package it had read
C9_Witness ==
  /\ DumpWrote(cmd)
  /\ \E i, j \in 1..Len(cmd.formulae) : i # j /\ cmd.formulae[i] = cmd.formulae[j]
  /\ Len(NamesOf(FormulaeSection(TextOf(fsys[DefaultConfigPath])))) = 2
  /\ \E key \in DOMAIN cmd.existing_settings :
       /\ key \notin InventoryNames(cmd.formulae, cmd.casks)
       /\ FlagsOf(TextOf(fsys[DefaultConfigPath]), key) = <<>>

-----------------------------------------------------------------------------
(* utils.rs *)

\* (mutant) the log is the settings file
get_log_path_IsSettings(located) ==
  IF located THEN [ok |-> TRUE, val |-> DefaultConfigPath] ELSE [ok |-> FALSE]

\* get_log_path; located as for get_config_path
get_log_path(located) ==
  IF located THEN [ok |-> TRUE, val |-> LogPath] ELSE [ok |-> FALSE]

\* log_operation: makes the directory of the log and appends
\* "[<now>] <message>\n" to the log. writable says whether the directory can
\* be made and the file opened and written; a call that fails appends nothing.
log_operation(files, message, now, located, writable) ==
  LET log_path == get_log_path(located)
  IN  IF ~log_path.ok \/ ~writable THEN [ok |-> FALSE, fsys |-> files]
      ELSE [ok |-> TRUE,
            fsys |-> [files EXCEPT ![Parent(log_path.val)] = Some(<<>>),
                                   ![log_path.val] =
                        Some(TextOf(@) \o <<"[">> \o now \o <<"]", " ">> \o message \o <<"\n">>)]]

-----------------------------------------------------------------------------
(* stats.rs *)

\* count_enabled_disabled: <<enabled, disabled>>
RECURSIVE count_enabled_disabled(_, _)
count_enabled_disabled(packages, settings) ==
  IF packages = <<>> THEN <<0, 0>>
  ELSE LET rest == count_enabled_disabled(Tail(packages), settings)
       IN  IF GetOr(settings, Head(packages), TRUE)
           THEN <<rest[1] + 1, rest[2]>>
           ELSE <<rest[1], rest[2] + 1>>

-----------------------------------------------------------------------------
(* ui.rs *)

\* char::to_lowercase, on the letters of the answers
ToLower(c) == IF c = "Y" THEN "y" ELSE IF c = "N" THEN "n" ELSE c

\* str::to_lowercase
ToLowercase(t) == [i \in 1..Len(t) |-> ToLower(t[i])]

\* show_simple_selection. stdin is what the reads of standard input will
\* return, one Result per read_line, and nothing at the end of the input; the
\* value is the Result and the input that is left.
show_simple_selection(packages, stdin) ==
  IF stdin = <<>> THEN [result |-> Ok(<<>>), stdin |-> stdin]
  ELSE IF ~Head(stdin).ok THEN [result |-> Err, stdin |-> Tail(stdin)]
  ELSE IF StartsWith(ToLowercase(Trim(Head(stdin).val)), <<"y">>)
  THEN [result |-> Ok(packages), stdin |-> Tail(stdin)]
  ELSE [result |-> Ok(<<>>), stdin |-> Tail(stdin)]

\* (mutant) Enter returns every record
Picked_All(packages, selected) == packages

\* packages.iter().enumerate().filter(|(i, _)| selected[*i])
RECURSIVE Picked(_, _)
Picked(packages, selected) ==
  IF packages = <<>> THEN <<>>
  ELSE (IF Head(selected) THEN <<Head(packages)>> ELSE <<>>)
         \o Picked(Tail(packages), Tail(selected))

\* the loop of show_interactive_selection: selected[i + 1] is the mark of the
\* package at index i, cursor is list_state.selected(), keys are the key
\* presses still to be read; when they are used up event::read() fails
RECURSIVE PickerLoop(_, _, _, _)
PickerLoop(packages, selected, cursor, keys) ==
  IF keys = <<>> THEN Err
  ELSE
    LET key == Head(keys)
    IN  IF key = "q" THEN Ok(<<>>)
        ELSE IF key = "Up"
        THEN PickerLoop(packages, selected, IF cursor > 0 THEN cursor - 1 ELSE cursor, Tail(keys))
        ELSE IF key = "Down"
        THEN PickerLoop(packages, selected,
                        IF cursor < Len(packages) - 1 THEN cursor + 1 ELSE cursor, Tail(keys))
        ELSE IF key = " "
        THEN PickerLoop(packages, [selected EXCEPT ![cursor + 1] = ~@], cursor, Tail(keys))
        ELSE IF key = "Enter" THEN Ok(Picked(packages, selected))
        ELSE PickerLoop(packages, selected, cursor, Tail(keys))

\* show_interactive_selection. ui.test_env: CI, GITHUB_ACTIONS or CARGO_TEST
\* is set, or the build is a test build; ui.raw_mode: TerminalGuard::new() and
\* the set-up of the terminal succeed.
show_interactive_selection(packages, ui) ==
  IF ui.test_env THEN show_simple_selection(packages, ui.stdin)
  ELSE IF ~ui.raw_mode THEN [result |-> Err, stdin |-> ui.stdin]
  ELSE [result |-> PickerLoop(packages, [i \in 1..Len(packages) |-> TRUE], 0, ui.keys),
        stdin |-> ui.stdin]

-----------------------------------------------------------------------------
(* commands.rs: upgrade_command *)

StartingText == <<"S","t","a","r","t","i","n","g"," ","u","p","g","r","a","d","e"," ","o","f"," ">>

PackagesText == <<" ","p","a","c","k","a","g","e","s">>

SuccessText == <<"S","U","C","C","E","S","S",":"," ">>

FailedText == <<"F","A","I","L","E","D",":"," ">>

ArrowText == <<" ","→"," ">>

CompletedText == <<"U","p","g","r","a","d","e"," ","s","e","s","s","i","o","n"," ","c","o","m","p","l","e","t","e","d",":"," ">>

SuccessfulText == <<" ","s","u","c","c","e","s","s","f","u","l",","," ">>

FailedCountText == <<" ","f","a","i","l","e","d">>

\* the Display of the error of a failed upgrade_package
UpgradeErrorText == <<"F","a","i","l","e","d"," ","t","o"," ","u","p","g","r","a","d","e">>

Digit(n) ==
  CASE n = 0 -> "0" [] n = 1 -> "1" [] n = 2 -> "2" [] n = 3 -> "3" [] n = 4 -> "4"
    [] n = 5 -> "5" [] n = 6 -> "6" [] n = 7 -> "7" [] n = 8 -> "8" [] n = 9 -> "9"

\* the Display of a usize
RECURSIVE Decimal(_)
Decimal(n) == IF n < 10 THEN <<Digit(n)>> ELSE Decimal(n \div 10) \o <<Digit(n % 10)>>

\* "{name} {current_version} → {available_version}"
VersionsText(pkg) ==
  pkg.name \o <<" ">> \o pkg.current_version \o ArrowText \o pkg.available_version

\* (mutant) the loop ends at the first upgrade_package that fails
RECURSIVE UpgradeLoop_StopsAtFailure(_, _, _, _, _, _, _, _)
UpgradeLoop_StopsAtFailure(files, packages, i, successful, failed, upgraded, located, answer) ==
  IF i > Len(packages) \/ failed > 0
  THEN LET logged == log_operation(files,
                       CompletedText \o Decimal(successful) \o SuccessfulText
                         \o Decimal(failed) \o FailedCountText,
                       answer.now, located, TRUE)
       IN  [ok |-> logged.ok, fsys |-> logged.fsys, upgraded |-> upgraded]
  ELSE
    LET pkg    == packages[i]
        result == IF i \in answer.failing THEN Err ELSE Ok(<<>>)
        logged == log_operation(files,
                    IF result.ok THEN SuccessText \o VersionsText(pkg)
                    ELSE FailedText \o VersionsText(pkg) \o <<" ", "-", " ">> \o UpgradeErrorText,
                    answer.now, located, answer.log_fault # i + 1)
    IN  IF ~logged.ok
        THEN [ok |-> FALSE, fsys |-> logged.fsys, upgraded |-> Append(upgraded, pkg)]
        ELSE UpgradeLoop_StopsAtFailure(logged.fsys, packages, i + 1,
                         IF result.ok THEN successful + 1 ELSE successful,
                         IF result.ok THEN failed ELSE failed + 1,
                         Append(upgraded, pkg), located, answer)

\* the loop of execute_upgrades from the package at index i on, when dry_run is
\* not set. answer.failing holds the indices of the packages whose
\* upgrade_package returns Err, answer.log_fault the number of the call of
\* log_operation that fails (0: none), counted from the "Starting" call.
RECURSIVE UpgradeLoop(_, _, _, _, _, _, _, _)
UpgradeLoop(files, packages, i, successful, failed, upgraded, located, answer) ==
  IF i > Len(packages)
  THEN LET logged == log_operation(files,
                       CompletedText \o Decimal(successful) \o SuccessfulText
                         \o Decimal(failed) \o FailedCountText,
                       answer.now, located, answer.log_fault # i + 1)
       IN  [ok |-> logged.ok, fsys |-> logged.fsys, upgraded |-> upgraded]
  ELSE
    LET pkg    == packages[i]
        result == IF i \in answer.failing THEN Err ELSE Ok(<<>>)
        logged == log_operation(files,
                    IF result.ok THEN SuccessText \o VersionsText(pkg)
                    ELSE FailedText \o VersionsText(pkg) \o <<" ", "-", " ">> \o UpgradeErrorText,
                    answer.now, located, answer.log_fault # i + 1)
    IN  IF ~logged.ok
        THEN [ok |-> FALSE, fsys |-> logged.fsys, upgraded |-> Append(upgraded, pkg)]
        ELSE UpgradeLoop(logged.fsys, packages, i + 1,
                         IF result.ok THEN successful + 1 ELSE successful,
                         IF result.ok THEN failed ELSE failed + 1,
                         Append(upgraded, pkg), located, answer)

\* (mutant) dry_run is not looked at
execute_upgrades_IgnoresDryRun(files, packages, dry_run, located, answer) ==
  LET logged == log_operation(files,
                  StartingText \o Decimal(Len(packages)) \o PackagesText,
                  answer.now, located, answer.log_fault # 1)
  IN  IF ~logged.ok THEN [ok |-> FALSE, fsys |-> logged.fsys, upgraded |-> <<>>]
      ELSE UpgradeLoop(logged.fsys, packages, 1, 0, 0, <<>>, located, answer)

\* execute_upgrades: its Result, the files it leaves, and the packages it
\* called executor.upgrade_package on, in the order of the calls
execute_upgrades(files, packages, dry_run, located, answer) ==
  IF dry_run THEN [ok |-> TRUE, fsys |-> files, upgraded |-> <<>>]
  ELSE
    LET logged == log_operation(files,
                    StartingText \o Decimal(Len(packages)) \o PackagesText,
                    answer.now, located, answer.log_fault # 1)
    IN  IF ~logged.ok THEN [ok |-> FALSE, fsys |-> logged.fsys, upgraded |-> <<>>]
        ELSE UpgradeLoop(logged.fsys, packages, 1, 0, 0, <<>>, located, answer)

\* settings.iter().filter(|(_, &enabled)| enabled): the keys mapped to true
EnabledPackages(settings) == {package \in DOMAIN settings : settings[package]}

\* (mutant) every outdated package passes the filter
IsUpgradeable_Any(enabled_packages, pkg) == TRUE

\* enabled_packages.contains(&pkg.name)
IsUpgradeable(enabled_packages, pkg) == pkg.name \in enabled_packages

\* outdated_packages.iter().filter(..).collect()
Upgradeable(outdated_packages, enabled_packages) ==
  SelectSeq(outdated_packages, LAMBDA pkg : IsUpgradeable(enabled_packages, pkg))

\* the selection: the picker, and the plain prompt when the picker fails
SelectPackages(upgradeable_packages, ui) ==
  LET shown == show_interactive_selection(upgradeable_packages, ui)
  IN  IF shown.result.ok THEN shown.result
      ELSE show_simple_selection(upgradeable_packages, shown.stdin).result

\* the record of a run of upgrade_command: its flag, the settings path, its
\* Result, the place it returned at, the locals it had bound by then, and
\* the packages executor.upgrade_package was called on
UpgradeRun(dry_run, config_path, ok, exit, settings, outdated, upgradeable, selected, upgraded) ==
  [kind |-> "upgrade", dry_run |-> dry_run, config_path |-> config_path, ok |-> ok,
   exit |-> exit, settings |-> settings, outdated_packages |-> outdated,
   upgradeable_packages |-> upgradeable, selected_packages |-> selected,
   upgraded |-> upgraded]

\* --config: none, or the path that is also the path of the log
ConfigArgs == {None, Some(LogPath)}

\* the lines of a settings file written by hand
DocLines ==
  { <<"-"," ","[","x","]"," ","a">>,
    <<"-"," ","["," ","]"," ","a">>,
    <<"-"," ","[","x","]"," ","b">>,
    <<" "," ","-"," ","["," ","]"," "," ","b"," ">>,
    <<"-"," ","[","x","]">>,
    <<"#","#"," ","F","o","r","m","u","l","a","e">> }

\* the settings files of at most MaxDocLines lines, each ended by "\n"
Docs ==
  {Concat([i \in 1..Len(l) |-> l[i] \o <<"\n">>]) : l \in SeqsUpTo(DocLines, MaxDocLines)}

\* the log an earlier run has left
PriorLog == <<"[","2","0","2","4","-","0","8","-","2","1"," ","0","9",":","0","0",":","0","0"," ","U","T","C","]"," ","U","p","g","r","a","d","e"," ","s","e","s","s","i","o","n"," ","c","o","m","p","l","e","t","e","d",":"," ","1"," ","s","u","c","c","e","s","s","f","u","l",","," ","0"," ","f","a","i","l","e","d","\n">>

\* a file system with these two files; the directory exists where one of
\* them does
FilesOf(settings, log) ==
  [p \in Paths |->
     IF p = DefaultConfigPath THEN settings
     ELSE IF p = LogPath THEN log
     ELSE IF settings = None /\ log = None THEN None ELSE Some(<<>>)]

\* the files a run of upgrade can find
UpgradeFiles ==
  {FilesOf(d, l) : d \in {None} \cup {Some(t) : t \in Docs}, l \in {None, Some(PriorLog)}}
  \cup {FilesOf(None, Some(t)) : t \in Docs}

Package(name, package_type) ==
  [name |-> name, current_version |-> <<"1">>, available_version |-> <<"2">>,
   package_type |-> package_type]

\* the records the executor reports as outdated
OutdatedPool ==
  {Package(<<"a">>, "Formula"), Package(<<"a">>, "Cask"), Package(<<"b">>, "Formula")}

\* what executor.get_outdated_packages() returns
OutdatedAnswers == {Err} \cup {Ok(l) : l \in SeqsUpTo(OutdatedPool, MaxOutdated)}

Session(test_env, raw_mode, keys, stdin) ==
  [test_env |-> test_env, raw_mode |-> raw_mode, keys |-> keys, stdin |-> stdin]

\* what the terminal and the user do during the selection
UiSessions ==
  { Session(TRUE, TRUE, <<>>, <<Ok(<<"y","\n">>)>>),
    Session(TRUE, TRUE, <<>>, <<Ok(<<"n","\n">>)>>),
    Session(TRUE, TRUE, <<>>, <<Err, Ok(<<" ","Y","e","s","\n">>)>>),
    Session(TRUE, TRUE, <<>>, <<Err, Err>>),
    Session(TRUE, TRUE, <<>>, <<>>),
    Session(FALSE, FALSE, <<>>, <<Ok(<<"y","\n">>)>>),
    Session(FALSE, TRUE, <<"Enter">>, <<>>),
    Session(FALSE, TRUE, <<" ", "Enter">>, <<>>),
    Session(FALSE, TRUE, <<"Down", " ", "x", "Enter">>, <<>>),
    Session(FALSE, TRUE, <<" ", "Down", " ", "Up", "Enter">>, <<>>),
    Session(FALSE, TRUE, <<"Down", "q">>, <<>>),
    Session(FALSE, TRUE, <<" ">>, <<Ok(<<"Y","\n">>)>>) }

\* what the executor and the log do during execute_upgrades on n packages;
\* the clock does not move during one run
ExecuteAnswers(n) ==
  [failing : SUBSET (1..n), log_fault : 0..(n + 2), now : Clock]

\* one run of `upgrade`
UpgradeCommand ==
  /\ cmd.kind = "none"
  /\ \E dry_run \in BOOLEAN, config \in ConfigArgs, located \in BOOLEAN :
       LET config_path == get_config_path(config, located)
           returns(path, ok, exit, settings, outdated, upgradeable, selected) ==
             /\ fsys' = fsys
             /\ cmd' = UpgradeRun(dry_run, path, ok, exit, settings, outdated, upgradeable,
                                  selected, <<>>)
       IN  IF ~config_path.ok
           THEN returns(None, FALSE, "config_path", EmptyMap, <<>>, <<>>, <<>>)
           ELSE
             LET path == Some(config_path.val)
             IN  IF fsys[config_path.val] = None
                 THEN returns(path, FALSE, "not_found", EmptyMap, <<>>, <<>>, <<>>)
                 ELSE \E readable \in BOOLEAN :
                   IF ~readable
                   THEN returns(path, FALSE, "read", EmptyMap, <<>>, <<>>, <<>>)
                   ELSE
                     LET settings         == read_existing_settings(fsys[config_path.val])
                         enabled_packages == EnabledPackages(settings)
                     IN  IF DOMAIN settings = {}
                         THEN returns(path, FALSE, "no_packages", settings, <<>>, <<>>, <<>>)
                         ELSE IF enabled_packages = {}
                         THEN returns(path, TRUE, "none_enabled", settings, <<>>, <<>>, <<>>)
                         ELSE \E outdated \in OutdatedAnswers :
                           IF ~outdated.ok
                           THEN returns(path, FALSE, "outdated", settings, <<>>, <<>>, <<>>)
                           ELSE
                             LET outdated_packages    == outdated.val
                                 upgradeable_packages ==
                                   Upgradeable(outdated_packages, enabled_packages)
                             IN  IF upgradeable_packages = <<>>
                                 THEN returns(path, TRUE, "up_to_date", settings,
                                              outdated_packages, <<>>, <<>>)
                                 ELSE \E ui \in UiSessions :
                                   LET selection == SelectPackages(upgradeable_packages, ui)
                                   IN  IF ~selection.ok
                                       THEN returns(path, FALSE, "selection", settings,
                                                    outdated_packages, upgradeable_packages, <<>>)
                                       ELSE IF selection.val = <<>>
                                       THEN returns(path, TRUE, "none_selected", settings,
                                                    outdated_packages, upgradeable_packages, <<>>)
                                       ELSE \E answer \in ExecuteAnswers(Len(selection.val)) :
                                         \E done \in {execute_upgrades(fsys, selection.val,
                                                                       dry_run, located, answer)} :
                                           /\ fsys' = done.fsys
                                           /\ cmd' = UpgradeRun(dry_run, path, done.ok, "executed",
                                                                settings, outdated_packages,
                                                                upgradeable_packages,
                                                                selection.val, done.upgraded)
  /\ UNCHANGED <<inp, out>>

UpgradeInit ==
  /\ fsys \in UpgradeFiles
  /\ cmd = [kind |-> "none"]
  /\ inp = [fn |-> "none"]
  /\ out = NoOutput

UpgradeNext == UpgradeCommand

SpecUpgrade == UpgradeInit /\ [][UpgradeNext]_vars

-----------------------------------------------------------------------------
(* The claims about upgrade, checked under SpecUpgrade. *)

\* the text of the settings file of a run of upgrade
SettingsText(run) == IF IsSome(run.config_path) THEN TextOf(fsys[Unwrap(run.config_path)]) ELSE <<>>

\* C1 as stated: upgrade_package is called only on records of the outdated
\* list that the selection returned and whose name has a "- [x]" entry, and
\* never on a package whose name has a "- [ ]" entry.
C1_Original ==
  cmd.kind = "upgrade" =>
    \A i \in 1..Len(cmd.upgraded) :
      LET pkg   == cmd.upgraded[i]
          flags == FlagsOf(SettingsText(cmd), pkg.name)
      IN  /\ pkg \in Range(cmd.outdated_packages)
          /\ TRUE \in Range(flags)
          /\ pkg \in Range(cmd.selected_packages)
          /\ FALSE \notin Range(flags)

\* C1 amended: upgrade_package is called only on records that are in the
\* executor's outdated list, that the selection returned, and whose name has
\* an entry in the settings file the LAST of which is "- [x]"; a package the
\* last entry of whose name is "- [ ]" is never upgraded.
C1_UpgradesOnlyEnabledSelected ==
  cmd.kind = "upgrade" =>
    \A i \in 1..Len(cmd.upgraded) :
      LET pkg   == cmd.upgraded[i]
          flags == FlagsOf(SettingsText(cmd), pkg.name)
      IN  /\ pkg \in Range(cmd.outdated_packages)
          /\ pkg \in Range(cmd.selected_packages)
          /\ flags # <<>>
          /\ flags[Len(flags)]

\* a run has upgraded a package and has left alone an outdated package whose
\* entry is "- [ ]"
C1_Witness ==
  /\ cmd.kind = "upgrade"
  /\ cmd.upgraded # <<>>
  /\ \E pkg \in Range(cmd.outdated_packages) :
       /\ FlagsOf(SettingsText(cmd), pkg.name) = <<FALSE>>
       /\ pkg \notin Range(cmd.upgraded)

\* C3: wherever the map is consulted, a name without a key counts as
\* enabled: generate_settings_content renders it "- [x]",
\* count_enabled_disabled counts it as enabled, and upgrade_command keeps an
\* outdated package of that name among the packages it offers for upgrade.
C3_AbsentKeyIsEnabled ==
  cmd.kind = "upgrade" =>
    \A i \in 1..Len(cmd.outdated_packages) :
      LET pkg == cmd.outdated_packages[i]
      IN  pkg.name \notin DOMAIN cmd.settings =>
            /\ EntryLine(cmd.settings, pkg.name) = CheckedLine(pkg.name) \o <<"\n">>
            /\ count_enabled_disabled(<<pkg.name>>, cmd.settings) = <<1, 0>>
            /\ pkg \in Range(cmd.upgradeable_packages)

\* C10 as stated: whatever a run of upgrade_command does, the settings file
\* holds after it what it held before.
C10_Original ==
  [][(cmd'.kind = "upgrade" /\ IsSome(cmd'.config_path)) =>
       fsys'[Unwrap(cmd'.config_path)] = fsys[Unwrap(cmd'.config_path)]]_vars

\* C10 amended: whatever a run of upgrade_command does (an error, nothing
\* enabled, nothing outdated, nothing selected, a dry run, an upgrade), the
\* settings file holds after it what it held before, provided the settings
\* path is not the path of the log.
C10_SettingsFileUnchanged ==
  [][(cmd'.kind = "upgrade" /\ IsSome(cmd'.config_path) /\ Unwrap(cmd'.config_path) # LogPath) =>
       fsys'[Unwrap(cmd'.config_path)] = fsys[Unwrap(cmd'.config_path)]]_vars

\* a run has upgraded a package and has written the log, and the settings
\* file at the default path is there
C10_Witness ==
  /\ cmd.kind = "upgrade"
  /\ cmd.config_path = Some(DefaultConfigPath)
  /\ cmd.upgraded # <<>>
  /\ Len(TextOf(fsys[LogPath])) > Len(PriorLog)
  /\ fsys[DefaultConfigPath] # None

\* the returns of upgrade_command that come before its call of
\* executor.get_outdated_packages()
ExitsBeforeExecutor == {"config_path", "not_found", "read", "no_packages", "none_enabled"}

\* C19: a run of upgrade_command that finds no file at its settings path, or
\* a file without any well-formed checkbox entry, returns an error from a
\* point before it asks the executor for the outdated packages; it upgrades
\* nothing and leaves every file as it was.
C19_NoSettingsIsError ==
  [][(/\ cmd'.kind = "upgrade"
      /\ IsSome(cmd'.config_path)
      /\ \/ fsys[Unwrap(cmd'.config_path)] = None
         \/ EntriesOf(Lines(TextOf(fsys[Unwrap(cmd'.config_path)]))) = <<>>)
     =>
       /\ ~cmd'.ok
       /\ cmd'.exit \in ExitsBeforeExecutor
       /\ cmd'.outdated_packages = <<>>
       /\ cmd'.selected_packages = <<>>
       /\ cmd'.upgraded = <<>>
       /\ fsys' = fsys]_vars

\* a run of upgrade has found a settings file that has text but no entry and
\* has returned the error of a settings file without packages
C19_Witness ==
  /\ cmd.kind = "upgrade"
  /\ ~cmd.ok
  /\ cmd.exit = "no_packages"
  /\ SettingsText(cmd) # <<>>
  /\ EntriesOf(Lines(SettingsText(cmd))) = <<>>

\* the returns of upgrade_command that come after its filter of the outdated
\* records
ExitsAfterFilter == {"up_to_date", "selection", "none_selected", "executed"}

\* the name has an entry in the settings file of the run and the last of its
\* entries is "- [x]"
EnabledInFile(run, name) ==
  LET flags == FlagsOf(SettingsText(run), name)
  IN  flags # <<>> /\ flags[Len(flags)]

\* C22: the list upgrade_command hands to the picker is the outdated list of
\* the executor without the records whose name is not enabled in the settings
\* file: the records kept are in the order of the outdated list, records of
\* the same name are all kept, and no record is added or changed.
C22_PickerGetsEnabledOutdated ==
  (cmd.kind = "upgrade" /\ cmd.exit \in ExitsAfterFilter) =>
    cmd.upgradeable_packages =
      SelectSeq(cmd.outdated_packages, LAMBDA pkg : EnabledInFile(cmd, pkg.name))

\* the picker was handed the second of two outdated records, the first being
\* of a name that is not enabled
C22_Witness ==
  /\ cmd.kind = "upgrade"
  /\ cmd.exit \in {"selection", "none_selected", "executed"}
  /\ Len(cmd.outdated_packages) = 2
  /\ cmd.upgradeable_packages = <<cmd.outdated_packages[2]>>
  /\ cmd.outdated_packages[1].name # cmd.outdated_packages[2].name

-----------------------------------------------------------------------------
(* config.rs: read_previous_packages, and the readers as Results. *)

\* "- ["
EntryPrefix == <<"-", " ", "[">>

\* extract_package_name
extract_package_name(line) ==
  IF StartsWith(line, CheckedPrefixSp)
  THEN Some(Trim(Unwrap(StripPrefix(line, CheckedPrefixSp))))
  ELSE IF StartsWith(line, UncheckedPrefixSp)
  THEN Some(Trim(Unwrap(StripPrefix(line, UncheckedPrefixSp))))
  ELSE None

\* (mutant) a package is put at the front of its list
PushPackage_Front(state, package) ==
  IF state.current_section = "formulae"
  THEN [state EXCEPT !.formulae = <<package>> \o @]
  ELSE IF state.current_section = "casks"
  THEN [state EXCEPT !.casks = <<package>> \o @]
  ELSE state

\* match current_section { "formulae" => formulae.push(package), ... }
PushPackage(state, package) ==
  IF state.current_section = "formulae"
  THEN [state EXCEPT !.formulae = Append(@, package)]
  ELSE IF state.current_section = "casks"
  THEN [state EXCEPT !.casks = Append(@, package)]
  ELSE state

\* the body of the loop of read_previous_packages: one line of the file
ReadPreviousLine(state, rawline) ==
  LET line == Trim(rawline)
  IN  IF line = FormulaeHeader THEN [state EXCEPT !.current_section = "formulae"]
      ELSE IF line = CasksHeader THEN [state EXCEPT !.current_section = "casks"]
      ELSE IF StartsWith(line, EntryPrefix)
      THEN LET package == extract_package_name(line)
           IN  IF IsSome(package) THEN PushPackage(state, Unwrap(package)) ELSE state
      ELSE state

RECURSIVE ReadPreviousLines(_, _)
ReadPreviousLines(state, lines) ==
  IF lines = <<>> THEN state
  ELSE ReadPreviousLines(ReadPreviousLine(state, Head(lines)), Tail(lines))

\* read_previous_packages on a path that holds no file (None) or a file
\* (Some(content)): Ok of the two lists, or Err
read_previous_packages(file, readable) ==
  IF file = None THEN Ok([formulae |-> <<>>, casks |-> <<>>])
  ELSE IF ~readable THEN Err
  ELSE LET end == ReadPreviousLines([formulae |-> <<>>, casks |-> <<>>, current_section |-> ""],
                                    Lines(Unwrap(file)))
       IN  Ok([formulae |-> end.formulae, casks |-> end.casks])

-----------------------------------------------------------------------------
(* The inputs of the reader specification. *)

\* the lines of a document, without their line break
ReadLines ==
  { <<"#","#"," ","F","o","r","m","u","l","a","e">>,
    <<"#","#"," ","C","a","s","k","s">>,
    <<"#","#"," ","N","o","t","e","s">>,
    <<"-"," ","[","x","]"," ","a">>,
    <<"-"," ","["," ","]"," ","a">>,
    <<" "," ","-"," ","["," ","]"," "," ","b"," ">>,
    <<"-"," ","[","x","]"," ","b">> \o <<"\r">>,
    <<"-"," ","[","x","]"," ">>,
    <<"-"," ","[","X","]"," ","a">>,
    <<"-"," ","[","x"," ","I","n","v","a","l","i","d">>,
    <<"-"," ","["," ","]","a">>,
    <<"-"," ","I","n","v","a","l","i","d">> }

\* the documents of at most MaxReadLines lines, each ended by "\n"
ReadDocs ==
  {Concat([i \in 1..Len(l) |-> l[i] \o <<"\n">>]) : l \in SeqsUpTo(ReadLines, MaxReadLines)}

ReadInit ==
  /\ fsys = NoFiles
  /\ cmd = [kind |-> "none"]
  /\ out = NoOutput
  /\ \E file \in {None} \cup {Some(t) : t \in ReadDocs}, readable \in BOOLEAN :
       inp = [fn |-> "read", file |-> file, readable |-> readable]

\* a call of read_existing_settings and one of read_previous_packages on the
\* same path
ReadFile ==
  /\ inp.fn = "read"
  /\ out = NoOutput
  /\ out' = [fn |-> "read",
             settings |-> read_existing_settings_result(inp.file, inp.readable),
             previous |-> read_previous_packages(inp.file, inp.readable)]
  /\ UNCHANGED <<fsys, cmd, inp>>

ReadNext == ReadFile

SpecRead == ReadInit /\ [][ReadNext]_vars

-----------------------------------------------------------------------------
(* The readers' claims, checked under SpecRead. *)

\* the lines of the document that was read
DocLinesRead == Lines(TextOf(inp.file))

\* a section header: a line that, trimmed, starts with "#"
IsHeader(line) == StartsWith(Trim(line), <<"#">>)

\* a header the reader knows
IsRecognized(line) == Trim(line) \in {FormulaeHeader, CasksHeader}

\* the index of the last line before line i that P holds of, 0 when there is none
LastBefore(lines, i, P(_)) ==
  IF \E j \in 1..(i - 1) : P(lines[j])
  THEN CHOOSE j \in 1..(i - 1) : P(lines[j]) /\ \A k \in (j + 1)..(i - 1) : ~P(lines[k])
  ELSE 0

\* line i is a checkbox entry and the nearest header before it is none of the
\* two the reader knows
UnderOtherHeader(lines, i) ==
  /\ IsSome(EntryOf(lines[i]))
  /\ LastBefore(lines, i, IsHeader) > 0
  /\ ~IsRecognized(lines[LastBefore(lines, i, IsHeader)])

\* the lines without those at the indices P holds of
Without(lines, P(_)) ==
  LET marked == [i \in 1..Len(lines) |-> [line |-> lines[i], drop |-> P(i)]]
      kept   == SelectSeq(marked, LAMBDA m : ~m.drop)
  IN  [i \in 1..Len(kept) |-> kept[i].line]

\* the two lists the loop of read_previous_packages returns on some lines
PreviousOf(lines) ==
  LET end == ReadPreviousLines([formulae |-> <<>>, casks |-> <<>>, current_section |-> ""], lines)
  IN  [formulae |-> end.formulae, casks |-> end.casks]

\* C11: a header other than "## Formulae" and "## Casks" resets the cursor:
\* the entries that follow it, up to the next header the reader knows, are in
\* neither list, so the lists are those of the document without these entries.
C11_OtherHeaderResets ==
  (out.fn = "read" /\ out.previous.ok) =>
    out.previous.val =
      PreviousOf(Without(DocLinesRead, LAMBDA i : UnderOtherHeader(DocLinesRead, i)))

\* the names of the entries among the lines whose nearest header before them,
\* of the headers the reader knows, is the given one, in the order of the lines
EntriesUnder(lines, header) ==
  LET marked == [i \in 1..Len(lines) |->
                   [entry |-> EntryOf(lines[i]), under |-> LastBefore(lines, i, IsRecognized)]]
      held   == SelectSeq(marked, LAMBDA m :
                   /\ IsSome(m.entry)
                   /\ m.under > 0
                   /\ Trim(lines[m.under]) = header)
  IN  [i \in 1..Len(held) |-> Unwrap(held[i].entry).name]

\* C12: read_previous_packages returns as formulae the names of the entries
\* whose nearest preceding known header is "## Formulae" and as casks those
\* whose nearest preceding known header is "## Casks", each in the order of the
\* document; an entry before any known header is in neither list.
C12_PreviousBySection ==
  (out.fn = "read" /\ out.previous.ok) =>
    /\ out.previous.val.formulae = EntriesUnder(DocLinesRead, FormulaeHeader)
    /\ out.previous.val.casks = EntriesUnder(DocLinesRead, CasksHeader)

\* a document was read that starts with an entry, before any known header, and
\* has one entry under "## Casks"
C12_Witness ==
  /\ out.fn = "read" /\ out.previous.ok
  /\ DocLinesRead # <<>>
  /\ IsSome(EntryOf(DocLinesRead[1]))
  /\ Len(out.previous.val.casks) = 1
  /\ out.previous.val.formulae = <<>>

\* the names of the entries of the document that was read
NamesRead == Range(NamesOf(DocLinesRead))

\* C13: a name that has several entries in the document is mapped by
\* read_existing_settings to the flag of the last of them (and a name with one
\* entry to the flag of that entry).
C13_LastOccurrenceWins ==
  (out.fn = "read" /\ out.settings.ok) =>
    \A name \in NamesRead :
      LET flags == FlagsOf(TextOf(inp.file), name)
      IN  /\ name \in DOMAIN out.settings.val
          /\ out.settings.val[name] = flags[Len(flags)]

\* a document was read in which a name has a first entry and a last entry of
\* different flags
C13_Witness ==
  /\ out.fn = "read" /\ out.settings.ok
  /\ \E name \in NamesRead :
       LET flags == FlagsOf(TextOf(inp.file), name)
       IN  Len(flags) >= 2 /\ flags[1] # flags[Len(flags)]

\* a line that, trimmed, starts with neither "- [x] " nor "- [ ] "
IsMalformed(line) == ~IsSome(EntryOf(line))

\* C14: read_existing_settings does not fail on the text of a document; a line
\* that, trimmed, starts with neither "- [x] " nor "- [ ] " adds no key to the
\* map, and the map is the one read from the document without such lines.
C14_MalformedLinesIgnored ==
  (out.fn = "read" /\ inp.readable) =>
    /\ out.settings.ok
    /\ DOMAIN out.settings.val = NamesRead
    /\ out.settings.val =
         ReadSettingsLines(EmptyMap, SelectSeq(DocLinesRead, LAMBDA l : ~IsMalformed(l)))

\* a document was read that has a malformed line starting with "- [" and an
\* entry after it, and the map has the key of that entry only
C14_Witness ==
  /\ out.fn = "read" /\ inp.readable /\ out.settings.ok
  /\ \E i, j \in 1..Len(DocLinesRead) :
       /\ i < j
       /\ IsMalformed(DocLinesRead[i])
       /\ StartsWith(Trim(DocLinesRead[i]), EntryPrefix)
       /\ ~IsMalformed(DocLinesRead[j])
  /\ Cardinality(DOMAIN out.settings.val) = 1

\* C15: no key of the map of read_existing_settings and no element of the two
\* lists of read_previous_packages is the empty string; a checkbox line with a
\* blank name is dropped.
C15_NoEmptyName ==
  out.fn = "read" =>
    /\ out.settings.ok => <<>> \notin DOMAIN out.settings.val
    /\ out.previous.ok =>
         <<>> \notin Range(out.previous.val.formulae) \cup Range(out.previous.val.casks)

\* a document was read that has, under a known header, a checkbox line with a
\* blank name
C15_Witness ==
  /\ out.fn = "read" /\ out.settings.ok /\ out.previous.ok
  /\ \E i \in 1..Len(DocLinesRead) :
       /\ Trim(DocLinesRead[i]) \in {CheckedPrefix, UncheckedPrefix}
       /\ LastBefore(DocLinesRead, i, IsRecognized) > 0

-----------------------------------------------------------------------------
(* stats.rs: calculate_package_changes *)

\* list.iter().filter(|pkg| !other.contains(pkg)).count()
CountNotIn(list, other) == Cardinality({i \in 1..Len(list) : list[i] \notin Range(other)})

\* calculate_package_changes; a previous list is None or Some(list)
calculate_package_changes(current_formulae, current_casks, previous_formulae, previous_casks) ==
  [added_formulae   |-> IF IsSome(previous_formulae)
                        THEN CountNotIn(current_formulae, Unwrap(previous_formulae)) ELSE 0,
   removed_formulae |-> IF IsSome(previous_formulae)
                        THEN CountNotIn(Unwrap(previous_formulae), current_formulae) ELSE 0,
   added_casks      |-> IF IsSome(previous_casks)
                        THEN CountNotIn(current_casks, Unwrap(previous_casks)) ELSE 0,
   removed_casks    |-> IF IsSome(previous_casks)
                        THEN CountNotIn(Unwrap(previous_casks), current_casks) ELSE 0]

\* the package lists of a change computation
ChangeLists == SeqsUpTo(Installed, MaxChangeLen)

\* a previous list: not supplied, or a list
PreviousLists == {None} \cup {Some(l) : l \in ChangeLists}

ChangesInit ==
  /\ fsys = NoFiles
  /\ cmd = [kind |-> "none"]
  /\ out = NoOutput
  /\ \E current_formulae \in ChangeLists, current_casks \in ChangeLists,
        previous_formulae \in PreviousLists, previous_casks \in PreviousLists :
       inp = [fn |-> "calculate_package_changes",
              current_formulae |-> current_formulae, current_casks |-> current_casks,
              previous_formulae |-> previous_formulae, previous_casks |-> previous_casks]

CalculateChanges ==
  /\ inp.fn = "calculate_package_changes"
  /\ out = NoOutput
  /\ out' = [fn |-> "calculate_package_changes",
             changes |-> calculate_package_changes(inp.current_formulae, inp.current_casks,
                                                   inp.previous_formulae, inp.previous_casks)]
  /\ UNCHANGED <<fsys, cmd, inp>>

ChangesNext == CalculateChanges

SpecChanges == ChangesInit /\ [][ChangesNext]_vars

\* the number of distinct names of the list that are not in the other list
DistinctNotIn(list, other) == Cardinality(Range(list) \ Range(other))

\* C17: where a previous list is supplied, added is the number of distinct
\* names of the current list that are not in the previous list, and removed
\* the number of distinct names of the previous list that are not in the
\* current list, also when a list holds a name more than once.
C17_ChangesAreSetDifferences ==
  out.fn = "calculate_package_changes" =>
    /\ IsSome(inp.previous_formulae) =>
         /\ out.changes.added_formulae =
              DistinctNotIn(inp.current_formulae, Unwrap(inp.previous_formulae))
         /\ out.changes.removed_formulae =
              DistinctNotIn(Unwrap(inp.previous_formulae), inp.current_formulae)
    /\ IsSome(inp.previous_casks) =>
         /\ out.changes.added_casks =
              DistinctNotIn(inp.current_casks, Unwrap(inp.previous_casks))
         /\ out.changes.removed_casks =
              DistinctNotIn(Unwrap(inp.previous_casks), inp.current_casks)

-----------------------------------------------------------------------------
(* The claims about a first dump and about a dry run, checked under Spec. *)

\* the entries of the settings file of a file system
SettingsEntries(files) == EntriesOf(Lines(TextOf(files[DefaultConfigPath])))

\* C18: where there is no settings file, read_existing_settings returns Ok of
\* the empty map and read_previous_packages Ok of two empty lists, whatever a
\* read would answer; so a dump that finds no settings file does not fail in
\* its read, works with the empty map, and where it writes, writes one entry
\* for each installed package, every one of them enabled.
C18_MissingFileIsEmpty ==
  [][(fsys[DefaultConfigPath] = None /\ cmd'.kind = "dump") =>
       /\ \A readable \in BOOLEAN :
            /\ read_existing_settings_result(fsys[DefaultConfigPath], readable) = Ok(EmptyMap)
            /\ read_previous_packages(fsys[DefaultConfigPath], readable) =
                 Ok([formulae |-> <<>>, casks |-> <<>>])
       /\ cmd'.exit # "read_existing_settings"
       /\ cmd'.exit \in {"create_dir_all", "write", "done"} => cmd'.existing_settings = EmptyMap
       /\ DumpWrote(cmd') =>
            /\ Len(SettingsEntries(fsys')) = Len(cmd'.formulae) + Len(cmd'.casks)
            /\ \A i \in 1..Len(SettingsEntries(fsys')) : SettingsEntries(fsys')[i].flag
            /\ \A i \in 1..Len(cmd'.formulae) :
                 RenderedAs(FormulaeSection(TextOf(fsys'[DefaultConfigPath])),
                            cmd'.formulae[i], TRUE)
            /\ \A i \in 1..Len(cmd'.casks) :
                 RenderedAs(CasksSection(TextOf(fsys'[DefaultConfigPath])),
                            cmd'.casks[i], TRUE)]_vars

\* a dump that read no settings has written a formula and a cask, both enabled
C18_Witness ==
  /\ DumpWrote(cmd)
  /\ cmd.existing_settings = EmptyMap
  /\ cmd.formulae # <<>> /\ cmd.casks # <<>>
  /\ Len(SettingsEntries(fsys)) = 2
  /\ \A i \in 1..Len(SettingsEntries(fsys)) : SettingsEntries(fsys)[i].flag

\* C20: a run of dump_command with dry_run set leaves the file system as it
\* was: it neither makes nor changes the settings file or its directory,
\* whatever the inventory and whatever settings file there was.
C20_DryRunLeavesFiles ==
  [][(cmd'.kind = "dump" /\ cmd'.dry_run) => fsys' = fsys]_vars

\* a dry run of a dump with packages installed has ended well and there is
\* neither a settings file nor its directory
C20_Witness ==
  /\ cmd.kind = "dump" /\ cmd.dry_run /\ cmd.ok
  /\ cmd.formulae # <<>> /\ cmd.casks # <<>>
  /\ fsys[DefaultConfigPath] = None
  /\ fsys[ConfigDir] = None

\* the returns of dump_command that come before its rendering of the document
ExitsBeforeRender ==
  {"get_config_path", "get_manually_installed_formulae", "get_manually_installed_casks",
   "read_existing_settings"}

\* C21: a run of dump_command that fails in one of its inventory queries or in
\* its read of the settings file returns an error and leaves every file as it
\* was; the settings file changes only in a run that is not dry and has passed
\* these steps and rendered the document, and a run that ends well has written
\* it once: it holds the complete document of the run.
C21_WriteAfterAllSteps ==
  [][cmd'.kind = "dump" =>
       /\ cmd'.exit \in ExitsBeforeRender => ~cmd'.ok /\ fsys' = fsys
       /\ fsys'[DefaultConfigPath] # fsys[DefaultConfigPath] =>
            /\ ~cmd'.dry_run
            /\ cmd'.exit \in {"write", "done"}
            /\ cmd'.existing_settings = read_existing_settings(fsys[DefaultConfigPath])
       /\ DumpWrote(cmd') =>
            \E now \in Clock :
              fsys'[DefaultConfigPath] =
                Some(generate_settings_content(cmd'.formulae, cmd'.casks,
                                               cmd'.existing_settings, None, now))]_vars

\* a dump has failed in its read of a settings file that has an entry, and the
\* file is there with its entry
C21_Witness ==
  /\ cmd.kind = "dump" /\ ~cmd.dry_run /\ ~cmd.ok
  /\ cmd.exit = "read_existing_settings"
  /\ SettingsEntries(fsys) # <<>>

-----------------------------------------------------------------------------
(* ui.rs and commands.rs: the selection step of upgrade_command, statement  *)
(* by statement: show_interactive_selection with its terminal, and the      *)
(* plain prompt upgrade_command falls back to when the picker fails.        *)

\* the state of the selection. pc: the statement to run next ("done" when
\* upgrade_command has its selected_packages, "error" when it has returned the
\* error of the plain prompt); raw_mode, alternate: the mode and the screen of
\* the terminal; selected[i + 1]: the mark of the package at index i; cursor:
\* list_state.selected(); event: the last event read; exit: the statement
\* show_interactive_selection returned from; fallback: whether upgrade_command
\* called show_simple_selection; selection: selected_packages
PickerState(pc, raw_mode, alternate, selected, cursor, event, exit, fallback, selection) ==
  [fn |-> "select", pc |-> pc, raw_mode |-> raw_mode, alternate |-> alternate,
   selected |-> selected, cursor |-> cursor, event |-> event, exit |-> exit,
   fallback |-> fallback, selection |-> selection]

\* the lists of records the selection is given: upgrade_command calls it on a
\* list that is not empty
PickLists == SeqsUpTo(OutdatedPool, MaxPick) \ {<<>>}

\* what one read of standard input returns: a line, an error, or the end of
\* the input
StdinAnswers ==
  { <<Ok(<<"y","\n">>)>>, <<Ok(<<" ","Y","e","s","\n">>)>>, <<Ok(<<"n","\n">>)>>,
    <<Ok(<<"\n">>)>>, <<Err>>, <<>> }

\* what event::read() returns: an error, a press of a key, the release of a
\* key, or an event that is no key event
Events == {"Err", "q", "Up", "Down", " ", "Enter", "x", "Release", "Resize"}

\* (mutant) the guard is dropped without a call of disable_raw_mode
TerminalDrop_KeepsRawMode(state) == [state EXCEPT !.alternate = FALSE]

\* Drop for TerminalGuard: disable_raw_mode() and LeaveAlternateScreen
TerminalDrop(state) == [state EXCEPT !.raw_mode = FALSE, !.alternate = FALSE]

\* show_interactive_selection returns result from the statement exit, and
\* upgrade_command matches on it: Ok is its selected_packages, Err sends it to
\* the plain prompt
Return(state, exit, result) ==
  [state EXCEPT !.exit = exit,
                !.pc = IF result.ok THEN "done" ELSE "fallback",
                !.selection = IF result.ok THEN Some(result.val) ELSE None]

\* (mutant) Down moves past the last entry and Space marks every entry
PressKey_Unbounded(state, packages, key) ==
  IF key = "Up" THEN [state EXCEPT !.cursor = IF @ > 0 THEN @ - 1 ELSE @]
  ELSE IF key = "Down" THEN [state EXCEPT !.cursor = @ + 1]
  ELSE IF key = " " THEN [state EXCEPT !.selected = [i \in DOMAIN @ |-> ~@[i]]]
  ELSE state

\* the arms of `match key.code` that stay in the loop
PressKey(state, packages, key) ==
  IF key = "Up" THEN [state EXCEPT !.cursor = IF @ > 0 THEN @ - 1 ELSE @]
  ELSE IF key = "Down"
  THEN [state EXCEPT !.cursor = IF @ < Len(packages) - 1 THEN @ + 1 ELSE @]
  ELSE IF key = " " THEN [state EXCEPT !.selected[state.cursor + 1] = ~@]
  ELSE state

PickerInit ==
  /\ fsys = NoFiles
  /\ cmd = [kind |-> "none"]
  /\ \E packages \in PickLists, test_env \in BOOLEAN :
       inp = [fn |-> "select", packages |-> packages, test_env |-> test_env]
  /\ out = PickerState("start", FALSE, FALSE, <<>>, 0, "none", "none", FALSE, None)

\* the start of show_interactive_selection: the plain prompt in a test
\* environment, else the marks and the cursor
StartSelection ==
  /\ out.pc = "start"
  /\ IF inp.test_env
     THEN \E stdin \in StdinAnswers :
            out' = Return(out, "test_env", show_simple_selection(inp.packages, stdin).result)
     ELSE out' = [out EXCEPT !.pc = "TerminalGuard::new",
                             !.selected = [i \in 1..Len(inp.packages) |-> TRUE],
                             !.cursor = 0]
  /\ UNCHANGED <<fsys, cmd, inp>>

\* let _guard = TerminalGuard::new()?
TerminalGuardNew ==
  /\ out.pc = "TerminalGuard::new"
  /\ \E ok \in BOOLEAN :
       out' = IF ok THEN [out EXCEPT !.raw_mode = TRUE, !.pc = "EnterAlternateScreen"]
              ELSE Return(out, "TerminalGuard::new", Err)
  /\ UNCHANGED <<fsys, cmd, inp>>

\* execute!(stdout, EnterAlternateScreen)?
EnterAlternateScreen ==
  /\ out.pc = "EnterAlternateScreen"
  /\ \E ok \in BOOLEAN :
       out' = IF ok THEN [out EXCEPT !.alternate = TRUE, !.pc = "Terminal::new"]
              ELSE Return(TerminalDrop(out), "EnterAlternateScreen", Err)
  /\ UNCHANGED <<fsys, cmd, inp>>

\* Terminal::new(backend)?
TerminalNew ==
  /\ out.pc = "Terminal::new"
  /\ \E ok \in BOOLEAN :
       out' = IF ok THEN [out EXCEPT !.pc = "draw"]
              ELSE Return(TerminalDrop(out), "Terminal::new", Err)
  /\ UNCHANGED <<fsys, cmd, inp>>

\* terminal.draw(..)?
Draw ==
  /\ out.pc = "draw"
  /\ \E ok \in BOOLEAN :
       out' = IF ok THEN [out EXCEPT !.pc = "event::read"]
              ELSE Return(TerminalDrop(out), "draw", Err)
  /\ UNCHANGED <<fsys, cmd, inp>>

\* event::read()? and the match on the key; left says whether the
\* LeaveAlternateScreen of the arms of 'q' and Enter succeeds
ReadEvent ==
  /\ out.pc = "event::read"
  /\ \E event \in Events, left \in BOOLEAN :
       LET read == [out EXCEPT !.event = event]
       IN  out' =
             IF event = "Err" THEN Return(TerminalDrop(read), "event::read", Err)
             ELSE IF event \in {"q", "Enter"} /\ ~left
             THEN Return(TerminalDrop(read), "LeaveAlternateScreen", Err)
             ELSE IF event = "q" THEN Return(TerminalDrop(read), "q", Ok(<<>>))
             ELSE IF event = "Enter"
             THEN Return(TerminalDrop(read), "Enter", Ok(Picked(inp.packages, out.selected)))
             ELSE [PressKey(read, inp.packages, event) EXCEPT !.pc = "draw"]
  /\ UNCHANGED <<fsys, cmd, inp>>

\* the Err arm of the match in upgrade_command: show_simple_selection(..)?
FallbackSelection ==
  /\ out.pc = "fallback"
  /\ \E stdin \in StdinAnswers :
       LET result == show_simple_selection(inp.packages, stdin).result
       IN  out' = [out EXCEPT !.fallback = TRUE,
                              !.pc = IF result.ok THEN "done" ELSE "error",
                              !.selection = IF result.ok THEN Some(result.val) ELSE None]
  /\ UNCHANGED <<fsys, cmd, inp>>

PickerNext ==
  \/ StartSelection
  \/ TerminalGuardNew
  \/ EnterAlternateScreen
  \/ TerminalNew
  \/ Draw
  \/ ReadEvent
  \/ FallbackSelection

SpecPicker == PickerInit /\ [][PickerNext]_vars

-----------------------------------------------------------------------------
(* The claims about the selection, checked under SpecPicker. *)

\* the elements of the list at the indices of I, in the order of the list
AtIndices(list, I) ==
  LET marked == [i \in 1..Len(list) |-> [at |-> i, elem |-> list[i]]]
      held   == SelectSeq(marked, LAMBDA m : m.at \in I)
  IN  [i \in 1..Len(held) |-> held[i].elem]

\* C23: the selection step ends with a sub-sequence of the list it was given.
\* The picker returns on Enter the records whose mark is set, in the order of
\* the list, and on 'q' no record; the plain prompt, which upgrade_command
\* calls when the picker has failed (and which the picker itself is in a test
\* environment), returns every record or none.
C23_SelectionIsSubsequence ==
  (out.fn = "select" /\ out.pc = "done") =>
    LET selection == Unwrap(out.selection)
    IN  /\ \E I \in SUBSET (1..Len(inp.packages)) : selection = AtIndices(inp.packages, I)
        /\ (~out.fallback /\ out.exit = "Enter") =>
             selection = AtIndices(inp.packages,
                                   {i \in 1..Len(inp.packages) : out.selected[i]})
        /\ (~out.fallback /\ out.exit = "q") => selection = <<>>
        /\ (out.fallback \/ out.exit = "test_env") => selection \in {inp.packages, <<>>}

\* the picker has returned on Enter the first and the last of three records,
\* the mark of the second being cleared
C23_Witness ==
  /\ out.fn = "select" /\ out.pc = "done"
  /\ ~out.fallback /\ out.exit = "Enter"
  /\ out.selected = <<TRUE, FALSE, TRUE>>
  /\ out.selection = Some(<<inp.packages[1], inp.packages[3]>>)
  /\ inp.packages[1] # inp.packages[3]

\* the statements of show_interactive_selection that run while the guard lives
GuardedStatements == {"EnterAlternateScreen", "Terminal::new", "draw", "event::read"}

\* C24: raw mode is on only while show_interactive_selection runs with its
\* guard; when the function has returned, from 'q', from Enter or from an
\* error of any of its statements, raw mode is off.
C24_RawModeReleased ==
  out.fn = "select" =>
    /\ out.raw_mode => out.pc \in GuardedStatements
    /\ out.pc \in {"fallback", "done", "error"} => ~out.raw_mode

\* the picker has returned the error of a draw, after it had enabled raw mode
\* and entered the alternate screen, and raw mode is off
C24_Witness ==
  /\ out.fn = "select"
  /\ out.pc = "fallback"
  /\ out.exit = "draw"
  /\ ~out.raw_mode

\* C27: the picker starts with every entry marked and the cursor at 0; the
\* cursor stays within 0..len-1, Up at 0 and Down at len-1 leaving it where it
\* is; Space flips the mark of the entry under the cursor and no other mark;
\* any other event that does not end the loop changes neither cursor nor marks.
C27_CursorAndMarks ==
  [][out.fn = "select" =>
       LET n == Len(inp.packages)
       IN  /\ (out.pc = "start" /\ out'.pc = "TerminalGuard::new") =>
                /\ out'.cursor = 0
                /\ out'.selected = [i \in 1..n |-> TRUE]
           /\ out'.pc \in GuardedStatements => out'.cursor \in 0..(n - 1)
           /\ (out.pc = "event::read" /\ out'.pc = "draw") =>
                /\ out'.event = "Up" =>
                     /\ out'.cursor = IF out.cursor = 0 THEN 0 ELSE out.cursor - 1
                     /\ out'.selected = out.selected
                /\ out'.event = "Down" =>
                     /\ out'.cursor = IF out.cursor = n - 1 THEN n - 1 ELSE out.cursor + 1
                     /\ out'.selected = out.selected
                /\ out'.event = " " =>
                     /\ out'.cursor = out.cursor
                     /\ \A i \in 1..n :
                          out'.selected[i] =
                            IF i = out.cursor + 1 THEN ~out.selected[i] ELSE out.selected[i]
                /\ out'.event \notin {"Up", "Down", " "} =>
                     /\ out'.cursor = out.cursor
                     /\ out'.selected = out.selected
           /\ (out.pc # "start" /\ out'.pc # "draw") =>
                /\ out'.cursor = out.cursor
                /\ out'.selected = out.selected]_vars

\* the cursor is on the last of three entries after a Down, and only the mark
\* of the second entry is cleared
C27_Witness ==
  /\ out.fn = "select"
  /\ out.pc = "draw"
  /\ out.event = "Down"
  /\ Len(inp.packages) = 3
  /\ out.cursor = 2
  /\ out.selected = <<TRUE, FALSE, TRUE>>

-----------------------------------------------------------------------------
(* commands.rs: execute_upgrades on its own. *)

\* the lists of selected packages: upgrade_command calls execute_upgrades on a
\* list that is not empty
SelectedLists == SeqsUpTo(OutdatedPool, MaxOutdated) \ {<<>>}

ExecuteInit ==
  /\ fsys \in {NoFiles, FilesOf(None, Some(PriorLog))}
  /\ cmd = [kind |-> "none"]
  /\ out = NoOutput
  /\ \E packages \in SelectedLists, dry_run \in BOOLEAN, located \in BOOLEAN :
       \E answer \in ExecuteAnswers(Len(packages)) :
         inp = [fn |-> "execute_upgrades", packages |-> packages, dry_run |-> dry_run,
                located |-> located, answer |-> answer]

ExecuteUpgrades ==
  /\ inp.fn = "execute_upgrades"
  /\ out = NoOutput
  /\ \E done \in {execute_upgrades(fsys, inp.packages, inp.dry_run, inp.located, inp.answer)} :
       /\ fsys' = done.fsys
       /\ out' = [fn |-> "execute_upgrades", ok |-> done.ok, upgraded |-> done.upgraded]
  /\ UNCHANGED <<cmd, inp>>

ExecuteNext == ExecuteUpgrades

SpecExecute == ExecuteInit /\ [][ExecuteNext]_vars

\* the last line of a text
LastLine(text) == Lines(text)[Len(Lines(text))]

\* the line log_operation writes at the end of a session of these counts
CompletedLine(now, successful, failed) ==
  <<"[">> \o now \o <<"]", " ">> \o CompletedText \o Decimal(successful) \o SuccessfulText
    \o Decimal(failed) \o FailedCountText

\* C25: in a run of execute_upgrades that is not dry and in which every call
\* of log_operation succeeds, upgrade_package is called once on every selected
\* package, in the order of the list, whichever of the calls fail; the run
\* returns Ok, and the counts it reports at its end are the number of the
\* calls that succeeded and the number of those that failed, which add up to
\* the number of selected packages.
C25_FailureDoesNotStopBatch ==
  (/\ out.fn = "execute_upgrades"
   /\ ~inp.dry_run
   /\ inp.located
   /\ inp.answer.log_fault = 0)
  =>
    /\ out.ok
    /\ out.upgraded = inp.packages
    /\ \E successful, failed \in 0..Len(inp.packages) :
         /\ successful + failed = Len(inp.packages)
         /\ failed = Cardinality(inp.answer.failing)
         /\ LastLine(TextOf(fsys[LogPath])) = CompletedLine(inp.answer.now, successful, failed)

\* a run has called upgrade_package on both of two packages although the
\* first call failed, and has returned Ok
C25_Witness ==
  /\ out.fn = "execute_upgrades"
  /\ ~inp.dry_run /\ inp.located /\ inp.answer.log_fault = 0
  /\ Len(inp.packages) = 2
  /\ inp.answer.failing = {1}
  /\ out.ok
  /\ out.upgraded = inp.packages

\* C26: a run of execute_upgrades with dry_run set calls upgrade_package on no
\* package and leaves the log, as every file, as it was, whatever the list of
\* selected packages.
C26_DryRunExecutesNothing ==
  [][(inp.fn = "execute_upgrades" /\ inp.dry_run /\ out'.fn = "execute_upgrades") =>
       /\ out'.upgraded = <<>>
       /\ out'.ok
       /\ fsys' = fsys]_vars

\* a dry run on two selected packages has ended and there is no log
C26_Witness ==
  /\ out.fn = "execute_upgrades"
  /\ inp.dry_run /\ inp.located /\ inp.answer.log_fault = 0
  /\ Len(inp.packages) = 2
  /\ out.ok
  /\ fsys[LogPath] = None

-----------------------------------------------------------------------------
(* The claims about a name in both sections and about a package that comes  *)
(* back, checked under Spec.                                                *)

\* the flags of the entries of a name among some lines, in their order
SectionFlags(lines, name) ==
  LET named == SelectSeq(EntriesOf(lines), LAMBDA e : e.name = name)
  IN  [i \in 1..Len(named) |-> named[i].flag]

\* C28: when the settings file has an entry of a name under "## Formulae" and
\* an entry of it under "## Casks" with another flag, and a dump with the name
\* installed as a formula and as a cask writes the file, the entries of the
\* name in both sections of the new file have the flag of the Casks entry: the
\* flag of the Formulae entry is lost. (A section has one entry of the name for
\* each time the inventory lists it.)
C28_CasksFlagWins ==
  [][DumpWrote(cmd') =>
       \A name \in Range(cmd'.formulae) \cap Range(cmd'.casks) :
         LET before   == TextOf(fsys[DefaultConfigPath])
             after    == TextOf(fsys'[DefaultConfigPath])
             formula  == SectionFlags(FormulaeSection(before), name)
             cask     == SectionFlags(CasksSection(before), name)
         IN  (/\ formula # <<>>
              /\ cask # <<>>
              /\ formula[Len(formula)] # cask[Len(cask)])
             =>
               \A flags \in {SectionFlags(FormulaeSection(after), name),
                              SectionFlags(CasksSection(after), name)} :
                 /\ flags # <<>>
                 /\ \A i \in 1..Len(flags) : flags[i] = cask[Len(cask)]]_vars

\* a dump of a name installed as a formula and as a cask has read the name as
\* disabled and has written both of its entries disabled
C28_Witness ==
  /\ DumpWrote(cmd)
  /\ \E name \in Range(cmd.formulae) \cap Range(cmd.casks) :
       /\ name \in DOMAIN cmd.existing_settings
       /\ ~cmd.existing_settings[name]
       /\ SectionFlags(FormulaeSection(TextOf(fsys[DefaultConfigPath])), name) = <<FALSE>>
       /\ SectionFlags(CasksSection(TextOf(fsys[DefaultConfigPath])), name) = <<FALSE>>

\* C29: a disabled choice does not outlive the absence of its package. A dump
\* that writes the file without the package in its inventory leaves no entry
\* of it, whatever flag it had; until a dump writes the package again the file
\* has no entry of it; and the dump that writes it again writes it enabled.
C29_PrunedComesBackEnabled ==
  [][cmd'.kind \in {"dump", "edit"} =>
       \A name \in Installed :
         LET before  == FlagsOf(TextOf(fsys[DefaultConfigPath]), name)
             after   == FlagsOf(TextOf(fsys'[DefaultConfigPath]), name)
             written == DumpWrote(cmd') /\ name \in InventoryNames(cmd'.formulae, cmd'.casks)
         IN  /\ (DumpWrote(cmd') /\ ~written) => after = <<>>
             /\ (before = <<>> /\ ~written) => after = <<>>
             /\ (before = <<>> /\ written) =>
                  /\ after # <<>>
                  /\ \A i \in 1..Len(after) : after[i]]_vars

\* a dump has written, enabled, a package it had read no entry of, next to a
\* package that it had read as disabled
C29_Witness ==
  /\ DumpWrote(cmd)
  /\ \E name \in InventoryNames(cmd.formulae, cmd.casks) :
       /\ name \notin DOMAIN cmd.existing_settings
       /\ FlagsOf(TextOf(fsys[DefaultConfigPath]), name) = <<TRUE>>
  /\ \E other \in InventoryNames(cmd.formulae, cmd.casks) :
       /\ other \in DOMAIN cmd.existing_settings
       /\ ~cmd.existing_settings[other]

-----------------------------------------------------------------------------
(* A further claim about the parser, checked under SpecParse. *)

\* C30: every record parse_outdated_line returns has an available_version
\* that is not empty, whatever the line; its name and its current_version
\* can be empty.
C30_AvailableVersionNotEmpty ==
  (out.fn = "parse_outdated_line" /\ out.result # None) =>
    Unwrap(out.result).available_version # <<>>

\* the parser has returned a record with an empty name and an empty
\* current_version
C30_Witness ==
  /\ out.fn = "parse_outdated_line"
  /\ out.result # None
  /\ Unwrap(out.result).name = <<>>
  /\ Unwrap(out.result).current_version = <<>>
  /\ Unwrap(out.result).available_version # <<>>

====
